---- MODULE Spec2Model ----
(***************************************************************************)
(* A state-machine model of eleven subsystems of the node:                 *)
(*   - the transaction submission engine   (core/signer/src/lib.rs)        *)
(*   - the consensus-to-execution pipeline (core/consensus/.../consensus.rs)*)
(*   - the verified block stream codec     (lib/blake3-stream/src/lib.rs)  *)
(*   - the handshake frame codec           (core/handshake/src/connection.rs)*)
(*   - the batch pool of the pipeline      (core/consensus/.../pool.rs)    *)
(*   - the in-memory block store           (core/blockstore/src/memory.rs) *)
(*   - the classification of a tag byte    (core/handshake/src/connection.rs)*)
(*   - the compression set                 (core/interfaces/.../compression.rs)*)
(*   - the simulation engine               (lib/simulon/src/simulation.rs) *)
(*   - the block lengths behind a header   (lib/blake3-stream/src/lib.rs)  *)
(*   - starting and stopping the signer    (core/signer/src/lib.rs)        *)
(* Every subsystem has its own specification (SignerSpec, SignerFairSpec,  *)
(* ConsensusSpec, ConsensusFairSpec, ReceiverSpec, StreamSpec,             *)
(* HandshakeSpec, FramingSpec, PoolSpec, PoolFairSpec, StoreSpec, TagSpec, *)
(* CompressionSpec, SimulationSpec, HeaderSpec, LifecycleSpec); the        *)
(* variables of the other subsystems stay at their initial value.          *)
(***************************************************************************)
EXTENDS Integers, Sequences, FiniteSets, TLC

VARIABLES
    \* ---- submission engine (SignerInner::handle locals + environment)
    base_nonce,        \* highest application nonce observed
    next_nonce,        \* next nonce to assign
    pending,           \* pending_transactions: VecDeque<PendingTransaction>
    base_timestamp,    \* Option<SystemTime>
    app_nonce,         \* the node's nonce in the application state
    now,               \* SystemTime::now()
    mempool,           \* nonces of the transactions the mempool has received
    returned,          \* nonces handed to the callers of Submit, in order
    sent,              \* transactions sent to the mempool by the last step
    rejected,          \* methods the validator rejected in the last sync
    cycle_start,       \* time of the last progress or the last retry pass
    last_op,           \* the operation the engine executed last
    signer_pc,         \* the spawned task: loop / left (break) / panicked
    is_running,        \* Signer.is_running
    shutdown_notify,   \* Signer.shutdown_notify holds a permit
    shutdown_during,   \* how shutdown was called: none / idle / busy
    steps,             \* effects of the last handler, in the order of the code
    \* ---- consensus pipeline (EdgeConsensus and its three tasks)
    shutdown_sent,     \* tx_shutdown.send() has happened
    n_certs,           \* verified certificates received so far
    pool,              \* BatchPool: digests of the stored batches
    recv_pc,           \* message_receiver_worker: select / sending / done / panicked
    recv_cert,         \* the certificate the receiver is sending (Option)
    new_certificates,  \* channel tx_new_certificates -> rx_new_certificates
    engine_pc,         \* ordering engine task: running / done
    dag,               \* certificates the engine holds, not yet committed
    committed,         \* every CommittedSubDag the engine has sent, in order
    rx_sequence,       \* channel tx_sequence -> rx_sequence
    prod_pc,           \* consensus_output_producer_worker: select / done
    waiting,           \* FuturesOrdered of fetch jobs
    outputs,           \* ConsensusOutputs handed to the execution engine
    recv_iters,        \* receiver loop iterations begun after the signal
    fetch_gets,        \* per fetch job of `waiting`: the pool.get calls it has made (Option)
    received,          \* the messages pub_sub.recv() yielded, where they are recorded
    \* ---- verified block stream (Encoder, VerifiedDecoder, test harness)
    phase,             \* encode / decode
    content,           \* the content being streamed
    written,           \* content bytes handed to Encoder::write so far
    writes,            \* number of Encoder::write calls made
    enc,               \* Encoder: buffer, block, num_blocks, content_len, out
    wire,              \* the bytes the decoder's reader holds
    corrupted,         \* position of the byte altered in transit (0: none)
    truncated,         \* the stream was cut short in transit
    chunk,             \* most bytes the reader returns from one read
    rd_pos,            \* bytes of the wire the reader has returned
    dec,               \* VerifiedDecoder: buffers, block, state, verifier
    delivered,         \* bytes the decoder handed to its caller
    last_read,         \* result of the last VerifiedDecoder::read (Option)
    failed_at,         \* Len(delivered) at the first InvalidData (Option)
    small_buf,         \* some read passed a buffer shorter than a block
    \* ---- handshake frames (two HandshakeConnections joined by a duplex pipe)
    hs_sent,           \* frames handed to write_frame, in order
    hs_raw,            \* the peer wrote bytes that are not write_frame's
    hs_pipe,           \* bytes written and not yet read by the other end
    hs_closed,         \* the writing end was dropped
    hs_buffer,         \* HandshakeConnection.buffer of the reading end
    hs_out,            \* bytes the reading end wrote to its own writer
    hs_got,            \* what the read_frame calls returned, in order
    \* ---- batch pool (BatchPool: a map and the futures that wait on it)
    bp_batches,        \* the map digest -> batch
    bp_gets,           \* every get future: digest, state, batch it resolved to
    bp_stores,         \* store calls made so far
    bp_op,             \* the pool operation executed last
    \* ---- block store (MemoryBlockStore and the callers of fetch and insert)
    bs_inner,          \* MemoryBlockStore.inner: HashMap<Key, Block>
    bs_log,            \* the insert and fetch calls made, with what fetch returned
    \* ---- tag byte classification (is_termination_signal, FrameTag::from_u8)
    cl_byte,           \* the byte under classification
    cl_out,            \* what the two functions answered for it (Option)
    \* ---- compression set (a CompressionAlgoSet value and its callers)
    cs_set,            \* CompressionAlgoSet.0
    cs_log,            \* the operations applied, with the set before and after
    \* ---- simulation engine (Simulation::run and its worker threads)
    sim_main,          \* the main thread's position in Simulation::run
    sim_n,             \* run's local n: frames left to run
    sim_saved,         \* stop_threads' local frame
    sim_frame,         \* SharedState.frame
    sim_cursor,        \* SharedState.cursor
    sim_ready,         \* SharedState.ready_workers
    sim_pc,            \* every worker thread's position in worker_loop
    sim_current,       \* every worker thread's local current_frame
    \* ---- block lengths (what a VerifiedDecoder makes of a length header)
    hd_len,            \* the content length the header carries
    hd_checks,         \* the build has overflow checks on (debug-assertions)
    hd_dec,            \* the decoder
    hd_lens,           \* the block lengths the decoder has waited for, in order
    hd_panic,          \* the decoder's thread panicked
    \* ---- signer lifecycle (Signer::start and Signer::shutdown, and callers)
    lc_is_running,     \* Signer.is_running
    lc_rx,             \* Signer.rx: parked (Some), taken (None) or poisoned
    lc_permit,         \* Signer.shutdown_notify holds a permit
    lc_task,           \* the spawned task: none / running / ended
    lc_spawned,        \* number of tokio::spawn calls made by start
    lc_callers,        \* every calling thread's position in start or shutdown
    lc_calls,          \* calls of start and shutdown begun so far
    lc_last            \* the step taken last

signerVars == <<base_nonce, next_nonce, pending, base_timestamp, app_nonce, now,
                mempool, returned, sent, rejected, cycle_start, last_op,
                signer_pc, is_running, shutdown_notify, shutdown_during, steps>>

consVars == <<shutdown_sent, n_certs, pool, recv_pc, recv_cert, new_certificates,
              engine_pc, dag, committed, rx_sequence, prod_pc, waiting, outputs,
              recv_iters, fetch_gets, received>>

streamVars == <<phase, content, written, writes, enc, wire, corrupted, truncated, chunk,
                rd_pos, dec, delivered, last_read, failed_at, small_buf>>

hsVars == <<hs_sent, hs_raw, hs_pipe, hs_closed, hs_buffer, hs_out, hs_got>>

poolVars == <<bp_batches, bp_gets, bp_stores, bp_op>>

storeVars == <<bs_inner, bs_log>>

tagVars == <<cl_byte, cl_out>>

compVars == <<cs_set, cs_log>>

simVars == <<sim_main, sim_n, sim_saved, sim_frame, sim_cursor, sim_ready, sim_pc,
             sim_current>>

hdVars == <<hd_len, hd_checks, hd_dec, hd_lens, hd_panic>>

lcVars == <<lc_is_running, lc_rx, lc_permit, lc_task, lc_spawned, lc_callers,
            lc_calls, lc_last>>

\* the subsystems outside the node's tasks and connections
libVars == <<storeVars, tagVars, compVars, simVars, hdVars, lcVars>>

\* the four subsystems that are tasks and connections, with the batch pool
nodeVars == <<signerVars, consVars, streamVars, hsVars, poolVars>>

vars == <<nodeVars, libVars>>

nonSignerVars == <<consVars, streamVars, hsVars, poolVars, libVars>>
nonConsVars == <<signerVars, streamVars, hsVars, poolVars, libVars>>
nonStreamVars == <<signerVars, consVars, hsVars, poolVars, libVars>>
nonHsVars == <<signerVars, consVars, streamVars, poolVars, libVars>>
nonPoolVars == <<signerVars, consVars, streamVars, hsVars, libVars>>
nonStoreVars == <<nodeVars, tagVars, compVars, simVars, hdVars, lcVars>>
nonTagVars == <<nodeVars, storeVars, compVars, simVars, hdVars, lcVars>>
nonCompVars == <<nodeVars, storeVars, tagVars, simVars, hdVars, lcVars>>
nonSimVars == <<nodeVars, storeVars, tagVars, compVars, hdVars, lcVars>>
nonHdVars == <<nodeVars, storeVars, tagVars, compVars, simVars, lcVars>>
nonLcVars == <<nodeVars, storeVars, tagVars, compVars, simVars, hdVars>>

\* ------------------------------------------------------------------------
\* Generic helpers
\* ------------------------------------------------------------------------
None == <<>>
Some(x) == <<x>>
IsNone(o) == o = <<>>
Unwrap(o) == o[1]

Min(a, b) == IF a <= b THEN a ELSE b

Range(s) == {s[i] : i \in DOMAIN s}

IsPrefix(s, t) == Len(s) <= Len(t) /\ \A i \in 1..Len(s) : s[i] = t[i]

\* ========================================================================
\* 1. Transaction submission engine
\* ========================================================================
TIMEOUT == 3

MaxSubmits == 3
MaxTime == 7
MaxInitNonce == 1

\* PendingTransaction { update_request { payload { method, nonce } }, timestamp }
PendingTransaction(m, n, t) == [method |-> m, nonce |-> n, timestamp |-> t]

SignerStart ==
    /\ app_nonce \in 0..MaxInitNonce
    /\ base_nonce = app_nonce
    /\ next_nonce = app_nonce + 1
    /\ pending = <<>>
    /\ base_timestamp = None
    /\ now = 0
    /\ mempool = {}
    /\ returned = <<>>
    /\ sent = <<>>
    /\ rejected = {}
    /\ cycle_start = 0
    /\ last_op = "init"
    /\ signer_pc = "loop"
    /\ is_running = TRUE
    /\ shutdown_notify = FALSE
    /\ shutdown_during = "none"
    /\ steps = <<>>

\* one effect of a handler on the world outside the task
Step(op, nonce) == [op |-> op, nonce |-> nonce]

\* a variant of notify_one that leaves no permit when the loop is busy
ShutdownLandsLost(called, how) ==
    IF called
    THEN /\ is_running
         /\ is_running' = FALSE
         /\ shutdown_notify' = (how = "idle")
         /\ shutdown_during' = how
    ELSE UNCHANGED <<is_running, shutdown_notify, shutdown_during>>

\* Signer::shutdown called by another task while a handler of the loop runs
\* (how = "busy"), or while the loop is parked in its select (how = "idle"):
\* notify_one leaves a permit when no Notified future is waiting for it, and a
\* future that was woken and dropped unpolled hands its permit back
ShutdownLands(called, how) ==
    IF called
    THEN /\ is_running
         /\ is_running' = FALSE
         /\ shutdown_notify' = TRUE
         /\ shutdown_during' = how
    ELSE UNCHANGED <<is_running, shutdown_notify, shutdown_during>>

\* the last effect of the handler is a send that the mempool failed
SendFailed(done) == done # <<>> /\ done[Len(done)].op = "fail"

\* a variant of the Submit branch that answers the caller after the send
SubmitStepsSendFirst(n, ok) ==
    IF ok THEN <<Step("send", n), Step("respond", n), Step("push", n)>>
    ELSE <<Step("send", n), Step("fail", n)>>

\* the effects of the Submit branch in the order of the code: respond to the
\* caller, send to the mempool, and push to the queue unless the send failed
\* (fail: mempool_socket.run answered with an error)
SubmitSteps(n, ok) ==
    IF ok THEN <<Step("respond", n), Step("send", n), Step("push", n)>>
    ELSE <<Step("respond", n), Step("send", n), Step("fail", n)>>

\* The `task = rx.recv()` branch of the select in SignerInner::handle; ok is
\* the answer of mempool_socket.run.
Submit ==
    /\ signer_pc = "loop"
    /\ Len(returned) < MaxSubmits
    /\ \E ok \in BOOLEAN, called \in BOOLEAN :
          LET m  == Len(returned) + 1
              tx == PendingTransaction(m, next_nonce, now)
              done == SubmitSteps(next_nonce, ok)
          IN /\ ShutdownLands(called, "busy")
             /\ steps' = done
             /\ returned' = IF \E i \in 1..Len(done) : done[i].op = "respond"
                            THEN Append(returned, next_nonce) ELSE returned
             /\ IF ok
                THEN /\ sent' = <<tx>>
                     /\ mempool' = mempool \cup {next_nonce}
                     /\ next_nonce' = next_nonce + 1
                     /\ pending' = Append(pending, tx)
                     /\ base_timestamp' = IF IsNone(base_timestamp) THEN Some(now)
                                          ELSE base_timestamp
                     /\ UNCHANGED signer_pc
                ELSE /\ sent' = <<>>
                     /\ signer_pc' = "panicked"
                     /\ UNCHANGED <<mempool, next_nonce, pending, base_timestamp>>
    /\ rejected' = {}
    /\ last_op' = "submit"
    /\ UNCHANGED <<base_nonce, app_nonce, now, cycle_start, nonSignerVars>>

\* a variant that takes any elapsed time for a timeout
TimedOutAtOnce(ts, t) == t - ts >= 0

\* elapsed(base_timestamp) >= TIMEOUT
TimedOut(ts, t) == t - ts >= TIMEOUT

RECURSIVE ResendKeepsGoing(_, _, _, _)
\* a variant of the retry loop that a failed send does not end
ResendKeepsGoing(q, rej, t, st) ==
    IF q = <<>> THEN st
    ELSE LET tx == Head(q)
         IN IF tx.method \in rej
            THEN ResendKeepsGoing(Tail(q), rej, t,
                                  [st EXCEPT !.queue = Append(@, tx)])
            ELSE IF st.left = 0
            THEN [st EXCEPT !.queue = @ \o q, !.next = @ + 1,
                            !.steps = @ \o <<Step("send", tx.nonce),
                                             Step("fail", tx.nonce)>>]
            ELSE LET tx2 == [tx EXCEPT !.timestamp = t]
                 IN ResendKeepsGoing(Tail(q), rej, t,
                        [queue   |-> Append(st.queue, tx2),
                         next    |-> st.next + 1,
                         base_ts |-> IF IsNone(st.base_ts) THEN Some(t)
                                     ELSE st.base_ts,
                         out     |-> Append(st.out, tx2),
                         left    |-> st.left - 1,
                         failed  |-> FALSE,
                         steps   |-> Append(st.steps, Step("send", tx2.nonce))])

\* a variant of the retry that leaves the timestamp of a resent entry alone
RefreshTimestampNot(tx, t) == tx

\* pending_tx.timestamp = SystemTime::now()
RefreshTimestamp(tx, t) == [tx EXCEPT !.timestamp = t]

RECURSIVE Resend(_, _, _, _)
\* The `for pending_tx in pending_transactions.iter_mut()` loop of the retry:
\* walks queue q; st = [queue, next, base_ts, out, left, failed] is the loop
\* state; the mempool answers the first st.left sends and fails the next,
\* which ends the loop (and the task) at the `expect`.
Resend(q, rej, t, st) ==
    IF q = <<>> THEN st
    ELSE LET tx == Head(q)
         IN IF tx.method \in rej
            THEN Resend(Tail(q), rej, t,
                        [st EXCEPT !.queue = Append(@, tx)])
            ELSE IF st.left = 0
            THEN [st EXCEPT !.queue = @ \o q, !.next = @ + 1, !.failed = TRUE,
                            !.steps = @ \o <<Step("send", tx.nonce),
                                             Step("fail", tx.nonce)>>]
            ELSE LET tx2 == RefreshTimestamp(tx, t)
                 IN Resend(Tail(q), rej, t,
                        [queue   |-> Append(st.queue, tx2),
                         next    |-> st.next + 1,
                         base_ts |-> IF IsNone(st.base_ts) THEN Some(t)
                                     ELSE st.base_ts,
                         out     |-> Append(st.out, tx2),
                         left    |-> st.left - 1,
                         failed  |-> FALSE,
                         steps   |-> Append(st.steps, Step("send", tx2.nonce))])

RECURSIVE PopFront(_, _)
\* while !pending.is_empty() && pending[0].nonce <= application_nonce { pop_front }
PopFront(q, app) ==
    IF q # <<>> /\ Head(q).nonce <= app THEN PopFront(Tail(q), app) ELSE q

\* SignerInner::sync_with_application, run on a new-block notification;
\* rej is the set of methods validate_txn answers Revert for, left the number
\* of sends the mempool answers before it fails one (Len(pending): it fails
\* none). A node record missing from the state reads as application nonce 0.
SyncWithApplication(rej, left) ==
    LET application_nonce == app_nonce IN
    /\ last_op' = "sync"
    /\ UNCHANGED <<app_nonce, now, returned, nonSignerVars>>
    /\ IF base_nonce = application_nonce /\ next_nonce > base_nonce + 1
       THEN IF ~IsNone(base_timestamp) /\ TimedOut(Unwrap(base_timestamp), now)
            THEN LET r == Resend(pending, rej, now,
                                 [queue |-> <<>>, next |-> base_nonce + 1,
                                  base_ts |-> None, out |-> <<>>,
                                  left |-> left, failed |-> FALSE, steps |-> <<>>])
                 IN /\ pending' = r.queue
                    /\ next_nonce' = r.next
                    /\ base_timestamp' = r.base_ts
                    /\ sent' = r.out
                    /\ mempool' = mempool \cup {tx.nonce : tx \in Range(r.out)}
                    /\ rejected' = rej
                    /\ cycle_start' = now
                    /\ steps' = r.steps
                    /\ signer_pc' = IF r.failed THEN "panicked" ELSE signer_pc
                    /\ UNCHANGED base_nonce
            ELSE /\ rej = {} /\ left = Len(pending)
                 /\ sent' = <<>>
                 /\ rejected' = {}
                 /\ steps' = <<>>
                 /\ UNCHANGED <<base_nonce, next_nonce, pending, base_timestamp,
                                mempool, cycle_start, signer_pc>>
       ELSE IF application_nonce > base_nonce
       THEN LET q == PopFront(pending, application_nonce)
            IN /\ rej = {} /\ left = Len(pending)
               /\ base_nonce' = application_nonce
               /\ pending' = q
               /\ base_timestamp' = IF q = <<>> THEN None
                                    ELSE Some(q[1].timestamp)
               /\ sent' = <<>>
               /\ rejected' = {}
               /\ cycle_start' = now
               /\ steps' = <<>>
               /\ UNCHANGED <<next_nonce, mempool, signer_pc>>
       ELSE /\ rej = {} /\ left = Len(pending)
            /\ sent' = <<>>
            /\ rejected' = {}
            /\ steps' = <<>>
            /\ UNCHANGED <<base_nonce, next_nonce, pending, base_timestamp,
                           mempool, cycle_start, signer_pc>>

\* The `_ = new_block_notify.notified()` branch of the select.
NewBlock ==
    /\ signer_pc = "loop"
    /\ \E rej \in SUBSET {tx.method : tx \in Range(pending)},
          left \in 0..Len(pending), called \in BOOLEAN :
          /\ ShutdownLands(called, "busy")
          /\ SyncWithApplication(rej, left)

\* Signer::shutdown, called while no handler of the loop is running
Shutdown ==
    /\ ShutdownLands(TRUE, "idle")
    /\ sent' = <<>>
    /\ rejected' = {}
    /\ steps' = <<>>
    /\ last_op' = "shutdown"
    /\ UNCHANGED <<base_nonce, next_nonce, pending, base_timestamp, app_nonce, now,
                   mempool, returned, cycle_start, signer_pc, nonSignerVars>>

\* The `_ = shutdown_notify.notified() => break` branch of the select.
ShutdownBranch ==
    /\ signer_pc = "loop" /\ shutdown_notify
    /\ signer_pc' = "left"
    /\ shutdown_notify' = FALSE
    /\ sent' = <<>>
    /\ rejected' = {}
    /\ steps' = <<>>
    /\ last_op' = "break"
    /\ UNCHANGED <<base_nonce, next_nonce, pending, base_timestamp, app_nonce, now,
                   mempool, returned, cycle_start, is_running, shutdown_during,
                   nonSignerVars>>

\* The application executes the node's next transaction: its nonce moves from
\* n to n + 1 when a transaction carrying nonce n + 1 reached the mempool.
ExecuteTx ==
    /\ app_nonce + 1 \in mempool
    /\ app_nonce' = app_nonce + 1
    /\ sent' = <<>>
    /\ rejected' = {}
    /\ steps' = <<>>
    /\ last_op' = "execute"
    /\ UNCHANGED <<base_nonce, next_nonce, pending, base_timestamp, now, mempool,
                   returned, cycle_start, signer_pc, is_running, shutdown_notify,
                   shutdown_during, nonSignerVars>>

\* Time passes: SystemTime::now() as the task reads it.
Tick ==
    /\ signer_pc = "loop"
    /\ now < MaxTime
    /\ now' = now + 1
    /\ sent' = <<>>
    /\ rejected' = {}
    /\ steps' = <<>>
    /\ last_op' = "tick"
    /\ UNCHANGED <<base_nonce, next_nonce, pending, base_timestamp, app_nonce,
                   mempool, returned, cycle_start, signer_pc, is_running,
                   shutdown_notify, shutdown_during, nonSignerVars>>

\* ========================================================================
\* 2. Consensus-to-execution pipeline
\* ========================================================================
MaxCerts == 2
MaxDigests == 2
ChannelCap == 1

Digests == 1..MaxDigests

\* A certificate is modelled by its header's payload: a set of batch digests.
\* A CommittedSubDag is [id, certificates]; id is its position in commit order.
DigestsOf(sd) == UNION Range(sd.certificates)

\* ---- BatchPool (super::pool) ------------------------------------------
\* store(batch): insert by digest and wake the waiters
PoolStore(p, d) == p \cup {d}
\* get(digest) resolves once the batch is present
PoolGetReady(p, d) == d \in p

\* ---- EdgeConsensus::shutdown -------------------------------------------
SendShutdown ==
    /\ ~shutdown_sent
    /\ shutdown_sent' = TRUE
    /\ UNCHANGED <<nonConsVars, received, fetch_gets, n_certs, pool, recv_pc, recv_cert, new_certificates, engine_pc,
                   dag, committed, rx_sequence, prod_pc, waiting, outputs,
                   recv_iters>>

\* `for handle in self.handles { handle.await }` has completed
Joined == /\ recv_pc \in {"done", "panicked"}
          /\ engine_pc = "done"
          /\ prod_pc = "done"

\* ---- message_receiver_worker -------------------------------------------
MaxMsgs == 3

\* PubSubMsg: a batch, a certificate (that verifies against the committee and
\* the worker cache, or does not), any other message
BatchMsg(d) == [kind |-> "Batch", payload |-> {d}, valid |-> TRUE]
CertificateMsg(c, ok) == [kind |-> "Certificate", payload |-> c, valid |-> ok]
OtherMsg == [kind |-> "Other", payload |-> {}, valid |-> TRUE]

PubSubMsgs ==
    {BatchMsg(d) : d \in Digests}
    \cup {CertificateMsg(c, ok) : c \in SUBSET Digests, ok \in BOOLEAN}
    \cup {OtherMsg}

\* a variant without the guard on the certificate arm
MatchArmUnverified(msg) ==
    CASE msg.kind = "Batch" -> "store"
      [] msg.kind = "Certificate" -> "send"
      [] OTHER -> "drop"

\* the arm of `match msg` in the handle closure that takes msg
MatchArm(msg) ==
    CASE msg.kind = "Batch" -> "store"
      [] msg.kind = "Certificate" /\ msg.valid -> "send"
      [] OTHER -> "drop"

\* the record of received messages is kept in the receiver's own
\* specification, up to MaxMsgs messages
CanReceive(log) == IF log.on THEN Len(log.msgs) < MaxMsgs ELSE TRUE
Record(log, msg) == IF log.on THEN [log EXCEPT !.msgs = Append(@, msg)] ELSE log

\* loop iterations begun after the shutdown signal: 0, 1 or "2 or more"
Tally(n) == IF shutdown_sent THEN Min(n + 1, 2) ELSE n

\* the shutdown branch of the receiver's select
ReceiverShutdown ==
    /\ recv_pc = "select" /\ shutdown_sent
    /\ recv_pc' = "done"
    /\ UNCHANGED <<nonConsVars, received, fetch_gets, shutdown_sent, n_certs, pool, recv_cert, new_certificates,
                   engine_pc, dag, committed, rx_sequence, prod_pc, waiting,
                   outputs, recv_iters>>

\* PubSubMsg::Batch(batch) => pool.store(batch)
ReceiverBatch(d) ==
    /\ recv_pc = "select" /\ CanReceive(received)
    /\ MatchArm(BatchMsg(d)) = "store"
    /\ received' = Record(received, BatchMsg(d))
    /\ pool' = PoolStore(pool, d)
    /\ recv_iters' = Tally(recv_iters)
    /\ UNCHANGED <<nonConsVars, fetch_gets, shutdown_sent, n_certs, recv_pc, recv_cert, new_certificates, engine_pc,
                   dag, committed, rx_sequence, prod_pc, waiting, outputs>>

\* tx_new_certificates.send(certificate).await.expect(..): completes when the
\* channel has room, fails (and the expect panics) when the receiving end is
\* dropped, and stays pending otherwise.
TrySend(c) ==
    IF engine_pc = "done"
    THEN /\ recv_pc' = "panicked" /\ recv_cert' = None
         /\ UNCHANGED new_certificates
    ELSE IF Len(new_certificates) < ChannelCap
    THEN /\ recv_pc' = "select" /\ recv_cert' = None
         /\ new_certificates' = Append(new_certificates, c)
    ELSE /\ recv_pc' = "sending" /\ recv_cert' = Some(c)
         /\ UNCHANGED new_certificates

\* PubSubMsg::Certificate(certificate) if certificate.verify(..).is_ok()
ReceiverCertificate(c) ==
    /\ recv_pc = "select" /\ n_certs < MaxCerts /\ CanReceive(received)
    /\ \E ok \in BOOLEAN :
          /\ MatchArm(CertificateMsg(c, ok)) = "send"
          /\ received' = Record(received, CertificateMsg(c, ok))
    /\ n_certs' = n_certs + 1
    /\ TrySend(c)
    /\ recv_iters' = Tally(recv_iters)
    /\ UNCHANGED <<nonConsVars, fetch_gets, shutdown_sent, pool, engine_pc, dag, committed, rx_sequence,
                   prod_pc, waiting, outputs>>

\* the receiver is woken while waiting in send
ReceiverSendWake ==
    /\ recv_pc = "sending"
    /\ engine_pc = "done" \/ Len(new_certificates) < ChannelCap
    /\ TrySend(Unwrap(recv_cert))
    /\ UNCHANGED <<nonConsVars, received, fetch_gets, shutdown_sent, n_certs, pool, engine_pc, dag, committed,
                   rx_sequence, prod_pc, waiting, outputs, recv_iters>>

\* `_ => {}`: a certificate that does not verify, or any other message
ReceiverIgnore ==
    /\ recv_pc = "select" /\ CanReceive(received)
    /\ \E msg \in PubSubMsgs :
          /\ MatchArm(msg) = "drop"
          /\ received' = Record(received, msg)
    /\ recv_iters' = Tally(recv_iters)
    /\ UNCHANGED <<nonConsVars, fetch_gets, shutdown_sent, n_certs, pool, recv_pc, recv_cert, new_certificates,
                   engine_pc, dag, committed, rx_sequence, prod_pc, waiting,
                   outputs>>

\* ---- ordering engine (Consensus::spawn with Bullshark) ------------------
EngineRecv ==
    /\ engine_pc = "running" /\ new_certificates # <<>>
    /\ dag' = Append(dag, Head(new_certificates))
    /\ new_certificates' = Tail(new_certificates)
    /\ UNCHANGED <<nonConsVars, received, fetch_gets, shutdown_sent, n_certs, pool, recv_pc, recv_cert, engine_pc,
                   committed, rx_sequence, prod_pc, waiting, outputs, recv_iters>>

\* the engine commits the certificates it holds as the next sub-dag
EngineCommit ==
    /\ engine_pc = "running" /\ dag # <<>>
    /\ LET sd == [id |-> Len(committed) + 1, certificates |-> dag]
       IN /\ committed' = Append(committed, sd)
          /\ rx_sequence' = Append(rx_sequence, sd)
    /\ dag' = <<>>
    /\ UNCHANGED <<nonConsVars, received, fetch_gets, shutdown_sent, n_certs, pool, recv_pc, recv_cert,
                   new_certificates, engine_pc, prod_pc, waiting, outputs,
                   recv_iters>>

\* the engine returns on the shutdown signal, dropping its channel ends
EngineShutdown ==
    /\ engine_pc = "running" /\ shutdown_sent
    /\ engine_pc' = "done"
    /\ UNCHANGED <<nonConsVars, received, fetch_gets, shutdown_sent, n_certs, pool, recv_pc, recv_cert,
                   new_certificates, dag, committed, rx_sequence, prod_pc,
                   waiting, outputs, recv_iters>>

\* ---- fetch and consensus_output_producer_worker --------------------------
\* a fetch that waits for every digest known to the node, referenced or not
FetchResolvedAll(sd, p) == \A d \in Digests : PoolGetReady(p, d)

\* a fetch that waits for the batches of the first certificate only
FetchResolvedFirst(sd, p) ==
    \A i \in 1..Min(1, Len(sd.certificates)) :
        \A d \in sd.certificates[i] : PoolGetReady(p, d)

\* fetch(pool, sub_dag) is resolved: every pool.get of the nested join_all is
FetchResolved(sd, p) ==
    \A i \in 1..Len(sd.certificates) :
        \A d \in sd.certificates[i] : PoolGetReady(p, d)

\* the ConsensusOutput fetch builds: one (certificate, batches) per certificate
ConsensusOutput(sd, p, late) ==
    [sub_dag |-> sd,
     batches |-> [i \in 1..Len(sd.certificates) |->
                    {d \in sd.certificates[i] : PoolGetReady(p, d)}],
     after_shutdown |-> late]

\* a completion queue that yields whichever job resolved (FuturesUnordered)
NextReadyUnordered(w, p) == {i \in 1..Len(w) : FetchResolved(w[i], p)}

\* waiting.next(): the positions of the queue whose output it may yield now
NextReady(w, p) == IF w # <<>> /\ FetchResolved(w[1], p) THEN {1} ELSE {}

RemoveAt(s, i) == SubSeq(s, 1, i - 1) \o SubSeq(s, i + 1, Len(s))

\* a queue that polls a job for the first time only at its head
FirstPollHeadOnly(w, g) == {i \in {1} : Len(g) >= 1 /\ g[1] = None}

\* the jobs a poll of `waiting` polls for the first time: FuturesOrdered polls
\* every job that is ready to run, and a pushed job is
FirstPoll(w, g) == {i \in 1..Len(g) : g[i] = None}

\* the first poll of fetch polls the outer join_all, which polls every
\* certificate's join_all, which calls and polls pool.get for every digest
Poll(w, g, S) == [i \in 1..Len(g) |-> IF i \in S THEN Some(DigestsOf(w[i])) ELSE g[i]]

\* select! polls waiting.next() and no job at the head is done
ProducerPoll ==
    /\ prod_pc = "select"
    /\ NextReady(waiting, pool) = {}
    /\ FirstPoll(waiting, fetch_gets) # {}
    /\ fetch_gets' = Poll(waiting, fetch_gets, FirstPoll(waiting, fetch_gets))
    /\ UNCHANGED <<nonConsVars, received, shutdown_sent, n_certs, pool, recv_pc, recv_cert,
                   new_certificates, engine_pc, dag, committed, rx_sequence,
                   prod_pc, waiting, outputs, recv_iters>>

ProducerShutdown ==
    /\ prod_pc = "select" /\ shutdown_sent
    /\ prod_pc' = "done"
    /\ UNCHANGED <<nonConsVars, received, fetch_gets, shutdown_sent, n_certs, pool, recv_pc, recv_cert,
                   new_certificates, engine_pc, dag, committed, rx_sequence,
                   waiting, outputs, recv_iters>>

\* Some(committed_sub_dag) = rx_sequence.recv() => waiting.push_back(fetch(..))
\* the future fetch returns does nothing until it is polled
ProducerRecv ==
    /\ prod_pc = "select" /\ rx_sequence # <<>>
    /\ waiting' = Append(waiting, Head(rx_sequence))
    /\ fetch_gets' = Append(fetch_gets, None)
    /\ rx_sequence' = Tail(rx_sequence)
    /\ UNCHANGED <<nonConsVars, received, shutdown_sent, n_certs, pool, recv_pc, recv_cert,
                   new_certificates, engine_pc, dag, committed, prod_pc, outputs,
                   recv_iters>>

\* Some(output) = waiting.next() => execution.handle_consensus_output(output)
\* the poll that yields the output returns as soon as the head job is done:
\* the jobs ahead of it in the ready queue have been polled, the rest not
ProducerOutput ==
    /\ prod_pc = "select"
    /\ \E i \in NextReady(waiting, pool) :
          /\ outputs' = Append(outputs,
                               ConsensusOutput(waiting[i], pool, shutdown_sent))
          /\ waiting' = RemoveAt(waiting, i)
          /\ \E S \in SUBSET (FirstPoll(waiting, fetch_gets) \ {i}) :
                fetch_gets' = RemoveAt(Poll(waiting, fetch_gets, S), i)
    /\ UNCHANGED <<nonConsVars, received, shutdown_sent, n_certs, pool, recv_pc, recv_cert,
                   new_certificates, engine_pc, dag, committed, rx_sequence,
                   prod_pc, recv_iters>>


\* ========================================================================
\* 3. Verified block stream (lib/blake3-stream/src/lib.rs)
\* ========================================================================
\* 256 * 1024 in the source; scaled down so that whole blocks are enumerable
BLOCK_SIZE == 4

\* contents are at most MaxK * BLOCK_SIZE + 1 bytes long
MaxK == 2

MaxLen == MaxK * BLOCK_SIZE + 1

ContentKinds == {"uniform", "indexed"}

\* tests::get_content_and_tree uses vec![0x80; len]; "indexed" is a content
\* whose blocks all differ
Content(kind, len) ==
    [i \in 1..len |-> IF kind = "uniform" THEN 128 ELSE (i - 1) % 256]

RECURSIVE to_le_bytes(_, _)
\* a variant that puts the low byte first
to_le_bytes(n, w) ==
    IF w = 0 THEN <<>> ELSE <<n % 256>> \o to_le_bytes(n \div 256, w - 1)

\* u64::to_be_bytes / u64::from_be_bytes
RECURSIVE to_be_bytes(_, _)
to_be_bytes(n, w) ==
    IF w = 0 THEN <<>> ELSE to_be_bytes(n \div 256, w - 1) \o <<n % 256>>

RECURSIVE from_be_bytes(_)
from_be_bytes(b) ==
    IF b = <<>> THEN 0
    ELSE from_be_bytes(SubSeq(b, 1, Len(b) - 1)) * 256 + b[Len(b)]

\* ---- blake3_tree (HashTree, ProofBuf, ProofSizeEstimator, IncrementalVerifier)
NumBlocksOf(len) == (len + BLOCK_SIZE - 1) \div BLOCK_SIZE

\* HashTree.tree holds 2n-1 nodes for n blocks (one node for the empty content)
TreeLen(len) == 2 * (IF len = 0 THEN 1 ELSE NumBlocksOf(len)) - 1

BlockOf(c, i) == SubSeq(c, i * BLOCK_SIZE + 1, Min((i + 1) * BLOCK_SIZE, Len(c)))

RECURSIVE CeilLog2(_)
CeilLog2(n) == IF n <= 1 THEN 0 ELSE 1 + CeilLog2((n + 1) \div 2)

RECURSIVE LowBit(_)
LowBit(i) == IF i % 2 = 1 THEN 1 ELSE 2 * LowBit(i \div 2)

\* number of hashes of the proof that precedes block i of n: the depth of
\* the leftmost leaf of the subtree that block i opens
ProofSizeEstimator(i, n) ==
    IF i = 0 THEN CeilLog2(n) ELSE CeilLog2(Min(LowBit(i), n - i))

\* ProofBuf::new(tree, 0) / ProofBuf::resume(tree, i): one token per hash;
\* tokens are >= 256 so that no content byte equals a hash
ProofBuf(i, n) == [j \in 1..ProofSizeEstimator(i, n) |-> 256 + 16 * i + j]

IncrementalVerifierNew == [next |-> 0, fed |-> FALSE]

\* the verifier is built on the root hash of the tree of `content`
is_done(iv) == iv.next = NumBlocksOf(Len(content))

feed_proof_ok(iv, bytes) == bytes = ProofBuf(iv.next, NumBlocksOf(Len(content)))

\* a block verifies iff its hash, computed with the block index the decoder
\* set, is the hash the verifier expects next; a mismatch leaves the verifier
\* where it was
verify_ok(iv, index, bytes) ==
    /\ iv.next < NumBlocksOf(Len(content))
    /\ index = iv.next
    /\ iv.fed \/ ProofSizeEstimator(iv.next, NumBlocksOf(Len(content))) = 0
    /\ bytes = BlockOf(content, iv.next)

\* ---- Encoder -----------------------------------------------------------
EncoderNew(content_len) ==
    [buffer |-> <<>>, block |-> 0,
     num_blocks |-> (TreeLen(content_len) + 1) \div 2,
     content_len |-> content_len,
     writer |-> to_be_bytes(content_len, 8)]

\* a block is written only once the final-block size is reached at the last
\* block index; a variant that flushes full blocks only
CanWriteFullBlocksOnly(e) ==
    e.buffer # <<>> /\ Len(e.buffer) >= BLOCK_SIZE

\* the loop condition of Encoder::write
CanWriteBlock(e) ==
    /\ e.buffer # <<>>
    /\ \/ Len(e.buffer) >= BLOCK_SIZE
       \/ /\ e.block = e.num_blocks - 1
          /\ Len(e.buffer) = e.content_len % BLOCK_SIZE

RECURSIVE WriteBlocks(_, _)
\* the while loop of Encoder::write: proof (if not empty), then the block
WriteBlocks(e, proof) ==
    IF ~CanWriteBlock(e) THEN e
    ELSE LET take == Min(Len(e.buffer), BLOCK_SIZE)
             e2 == [e EXCEPT !.writer = @ \o proof \o SubSeq(e.buffer, 1, take),
                             !.buffer = SubSeq(@, take + 1, Len(@)),
                             !.block = @ + 1]
         IN WriteBlocks(e2, IF e2.block < e2.num_blocks
                            THEN ProofBuf(e2.block, e2.num_blocks) ELSE proof)

\* a variant of Encoder::write that starts its loop with an empty proof
EncoderWriteNoFirstProof(e, buf) ==
    WriteBlocks([e EXCEPT !.buffer = @ \o buf], <<>>)

EncoderWrite(e, buf) ==
    WriteBlocks([e EXCEPT !.buffer = @ \o buf], ProofBuf(e.block, e.num_blocks))

\* ---- VerifiedDecoder ------------------------------------------------------
WaitingForHeader == [kind |-> "WaitingForHeader", size |-> 8]
WaitingForProof(proof_len) == [kind |-> "WaitingForProof", size |-> proof_len]
WaitingForBlock(block_len) == [kind |-> "WaitingForBlock", size |-> block_len]
Finished == [kind |-> "Finished", size |-> 0]

\* `visited` is not a field of the struct: it records the states that
\* `self.state = ..` was assigned during the last call of read, in order
VerifiedDecoderNew ==
    [read_buffer |-> <<>>, out_buffer |-> <<>>, block |-> 0, num_blocks |-> 0,
     remaining |-> 0, state |-> WaitingForHeader, iv |-> IncrementalVerifierNew,
     visited |-> <<>>]

\* what one call of read gives back: the decoder, the reader's position, the
\* io::Result (Ok / InvalidData / ConnectionReset / panic) and the bytes
\* copied into the caller's buffer
ReadResult(d, pos, kind, bytes) ==
    [dec |-> d, pos |-> pos, kind |-> kind, bytes |-> bytes]

\* self.reader.read(&mut [0; BLOCK_SIZE]) on a reader that hands out at most
\* `chunk` bytes at a time
ReaderRead(pos) == Min(Min(chunk, BLOCK_SIZE), Len(wire) - pos)

\* DecoderState::WaitingForHeader arm
OnHeader(d) ==
    LET remaining == from_be_bytes(SubSeq(d.read_buffer, 1, 8))
        num_blocks == (remaining + BLOCK_SIZE - 1) \div BLOCK_SIZE
    IN [d EXCEPT !.read_buffer = SubSeq(@, 9, Len(@)),
                 !.remaining = remaining,
                 !.num_blocks = num_blocks,
                 !.state = WaitingForProof(ProofSizeEstimator(0, num_blocks)),
                 !.visited = Append(@, "WaitingForProof")]

\* `self.num_blocks - 1` on usize with num_blocks = 0: a panic in a build
\* with overflow checks, usize::MAX in a build without
SubtractOverflows(d) == d.num_blocks = 0

\* the block length chosen at the end of the WaitingForProof arm; every block
\* index is below the usize::MAX that 0 - 1 wraps to
NextBlockLen(d) ==
    IF SubtractOverflows(d) \/ d.block < d.num_blocks - 1 THEN BLOCK_SIZE
    ELSE IF d.remaining % BLOCK_SIZE = 0 THEN BLOCK_SIZE
    ELSE d.remaining % BLOCK_SIZE

\* a variant that goes on to the next proof after the last block too
AfterBlockNeverFinished(d) ==
    WaitingForProof(ProofSizeEstimator(d.block + 1, d.num_blocks + 1))

\* the state chosen after a verified block
AfterBlock(d) ==
    IF d.block + 1 < d.num_blocks
    THEN WaitingForProof(ProofSizeEstimator(d.block + 1, d.num_blocks))
    ELSE Finished

\* the tail of the WaitingForBlock arm: hand the verified bytes to the caller
Deliver(d, pos, bytes, buf_len) ==
    IF Len(bytes) > buf_len
    THEN LET take == Len(bytes) - buf_len
         IN IF take > buf_len
            THEN ReadResult(d, pos, "panic", <<>>)     \* buf[..take] out of range
            ELSE ReadResult([d EXCEPT !.out_buffer =
                                @ \o SubSeq(bytes, take + 1, Len(bytes))],
                            pos, "Ok", SubSeq(bytes, 1, take))
    ELSE ReadResult(d, pos, "Ok", bytes)

RECURSIVE ReadLoop(_, _, _)
\* the loop of VerifiedDecoder::read
ReadLoop(d, pos, buf_len) ==
    IF d.state.kind = "Finished" THEN ReadResult(d, pos, "Ok", <<>>)
    ELSE IF Len(d.read_buffer) >= d.state.size
    THEN LET size == d.state.size
             bytes == SubSeq(d.read_buffer, 1, size)
             rest == SubSeq(d.read_buffer, size + 1, Len(d.read_buffer))
         IN CASE d.state.kind = "WaitingForHeader" ->
                   ReadLoop(OnHeader(d), pos, buf_len)
              [] d.state.kind = "WaitingForProof" ->
                   IF size # 0 /\ ~feed_proof_ok(d.iv, bytes)
                   THEN ReadResult([d EXCEPT !.read_buffer = rest],
                                   pos, "InvalidData", <<>>)
                   ELSE ReadLoop([d EXCEPT !.read_buffer = rest,
                                           !.iv.fed = (size # 0),
                                           !.state = WaitingForBlock(NextBlockLen(d)),
                                           !.visited = Append(@, "WaitingForBlock")],
                                 pos, buf_len)
              [] d.state.kind = "WaitingForBlock" ->
                   IF ~verify_ok(d.iv, d.block, bytes)
                   THEN ReadResult([d EXCEPT !.read_buffer = rest],
                                   pos, "InvalidData", <<>>)
                   ELSE Deliver([d EXCEPT !.read_buffer = rest,
                                          !.iv = [next |-> @.next + 1, fed |-> FALSE],
                                          !.block = @ + 1,
                                          !.state = AfterBlock(d),
                                          !.visited = Append(@, AfterBlock(d).kind)],
                                pos, bytes, buf_len)
    ELSE LET len == ReaderRead(pos)
         IN IF len = 0
            THEN ReadResult(d, pos, IF d.read_buffer # <<>> THEN "ConnectionReset"
                                    ELSE "Ok", <<>>)
            ELSE ReadLoop([d EXCEPT !.read_buffer =
                               @ \o SubSeq(wire, pos + 1, pos + len)],
                          pos + len, buf_len)

\* VerifiedDecoder::read(buf) with buf.len() = buf_len
VerifiedDecoderRead(d, pos, buf_len) ==
    IF is_done(d.iv) THEN ReadResult(d, pos, "Ok", <<>>)
    ELSE IF d.out_buffer # <<>>
    THEN LET take == Min(Len(d.out_buffer), buf_len)
         IN ReadResult([d EXCEPT !.out_buffer = SubSeq(@, take + 1, Len(@))],
                       pos, "Ok", SubSeq(d.out_buffer, 1, take))
    ELSE ReadLoop(d, pos, buf_len)

\* ---- the stream's life: encode, carry, decode ---------------------------
\* caller buffer lengths handed to read
BufSizes == 1..(BLOCK_SIZE + 1)

\* a byte, or a hash of a proof, altered in transit
Altered(b) == IF b < 256 THEN (b + 1) % 256 ELSE b + 4096

\* Encoder::new on the content's tree; a decoder waits on the other side
StreamStart ==
    /\ \E kind \in ContentKinds, len \in 1..MaxLen :
          /\ content = Content(kind, len)
          /\ enc = EncoderNew(len)
    /\ chunk \in 1..BLOCK_SIZE
    /\ phase = "encode" /\ written = 0 /\ writes = 0 /\ wire = <<>>
    /\ corrupted = 0 /\ truncated = FALSE /\ rd_pos = 0 /\ dec = VerifiedDecoderNew
    /\ delivered = <<>> /\ last_read = None /\ failed_at = None
    /\ small_buf = FALSE

\* encoder.write_all(next n bytes of the content)
StreamWrite ==
    /\ phase = "encode" /\ written < Len(content)
    /\ \E n \in 1..(Len(content) - written) :
          /\ enc' = EncoderWrite(enc, SubSeq(content, written + 1, written + n))
          /\ written' = written + n
    /\ writes' = writes + 1
    /\ UNCHANGED <<phase, content, wire, corrupted, truncated, chunk, rd_pos, dec, delivered,
                   last_read, failed_at, small_buf, nonStreamVars>>

\* encoder.flush(); VerifiedDecoder::new(encoded_buffer, tree.hash)
StartDecoding ==
    /\ phase = "encode" /\ written = Len(content)
    /\ phase' = "decode" /\ wire' = enc.writer
    /\ UNCHANGED <<content, written, writes, enc, corrupted, truncated, chunk, rd_pos, dec,
                   delivered, last_read, failed_at, small_buf, nonStreamVars>>

\* one element of a proof segment or of a block is altered before it is read
Corrupt ==
    /\ phase = "decode" /\ corrupted = 0 /\ ~truncated /\ last_read = None
    /\ \E p \in 9..Len(wire) :
          /\ corrupted' = p
          /\ wire' = [wire EXCEPT ![p] = Altered(@)]
    /\ UNCHANGED <<phase, content, written, writes, enc, truncated, chunk, rd_pos, dec,
                   delivered, last_read, failed_at, small_buf, nonStreamVars>>

\* the connection that carries the stream is lost: the reader holds only the
\* first p bytes of the encoder's output and then reports end of file
Truncate ==
    /\ phase = "decode" /\ corrupted = 0 /\ ~truncated /\ last_read = None
    /\ \E p \in 0..(Len(wire) - 1) : wire' = SubSeq(wire, 1, p)
    /\ truncated' = TRUE
    /\ UNCHANGED <<phase, content, written, writes, enc, corrupted, chunk, rd_pos, dec,
                   delivered, last_read, failed_at, small_buf, nonStreamVars>>

\* a read panicked on its slice bounds: the caller's thread unwound
Panicked == ~IsNone(last_read) /\ Unwrap(last_read).kind = "panic"

\* decoder.read(&mut buf)
DecoderRead ==
    /\ phase = "decode"
    /\ ~Panicked
    /\ \E buf_len \in BufSizes :
          LET r == VerifiedDecoderRead([dec EXCEPT !.visited = <<>>], rd_pos, buf_len)
          IN /\ dec' = r.dec
             /\ rd_pos' = r.pos
             /\ delivered' = delivered \o r.bytes
             /\ last_read' = Some([kind |-> r.kind, n |-> Len(r.bytes)])
             /\ failed_at' = IF IsNone(failed_at) /\ r.kind = "InvalidData"
                             THEN Some(Len(delivered)) ELSE failed_at
             /\ small_buf' = (small_buf \/ buf_len < BLOCK_SIZE)
    /\ UNCHANGED <<phase, content, written, writes, enc, wire, corrupted, truncated, chunk,
                   nonStreamVars>>

\* ========================================================================
\* 4. Handshake frame codec (core/handshake/src/connection.rs)
\* ========================================================================
NETWORK == <<76, 73, 71, 72, 84, 78, 73, 78, 71>>      \* b"LIGHTNING"

HANDSHAKE_REQ_TAG == 1
HANDSHAKE_RES_TAG == 2
HANDSHAKE_RES_UNLOCK_TAG == 4
DELIVERY_ACK_TAG == 8
SERVICE_REQ_TAG == 16
TERMINATION_FLAG == 128

RECURSIVE BitAnd(_, _)
\* a & b on unsigned integers
BitAnd(a, b) ==
    IF a = 0 \/ b = 0 THEN 0
    ELSE (a % 2) * (b % 2) + 2 * BitAnd(a \div 2, b \div 2)

\* a variant that takes the flag for a lower bound
is_termination_signal_Above(byte) == byte > TERMINATION_FLAG

is_termination_signal(byte) == BitAnd(byte, TERMINATION_FLAG) = TERMINATION_FLAG

\* ---- Reason --------------------------------------------------------------
Reasons == {"CodecViolation", "OutOfLanes", "ServiceNotFound",
            "InsufficientBalance", "Unknown"}

\* `reason as u8`
ReasonAsU8(r) ==
    CASE r = "CodecViolation" -> TERMINATION_FLAG
      [] r = "OutOfLanes" -> TERMINATION_FLAG + 1
      [] r = "ServiceNotFound" -> TERMINATION_FLAG + 2
      [] r = "InsufficientBalance" -> TERMINATION_FLAG + 3
      [] r = "Unknown" -> 255

\* Reason::from_u8
ReasonFromU8(byte) ==
    IF ~is_termination_signal(byte) THEN None
    ELSE CASE byte = 128 -> Some("CodecViolation")
           [] byte = 129 -> Some("OutOfLanes")
           [] byte = 130 -> Some("ServiceNotFound")
           [] byte = 131 -> Some("InsufficientBalance")
           [] OTHER -> Some("Unknown")

\* ---- FrameTag ------------------------------------------------------------
\* FrameTag::from_u8
FrameTagFromU8(value) ==
    IF is_termination_signal(value) THEN Some("TerminationSignal")
    ELSE CASE value = HANDSHAKE_REQ_TAG -> Some("HandshakeRequest")
           [] value = HANDSHAKE_RES_TAG -> Some("HandshakeResponse")
           [] value = HANDSHAKE_RES_UNLOCK_TAG -> Some("HandshakeResponseUnlock")
           [] value = DELIVERY_ACK_TAG -> Some("DeliveryAcknowledgement")
           [] value = SERVICE_REQ_TAG -> Some("ServiceRequest")
           [] OTHER -> None

\* a variant that takes a delivery acknowledgement for its tag alone
size_hint_BareAck(tag) ==
    CASE tag = "HandshakeRequest" -> 33
      [] tag = "HandshakeResponse" -> 106
      [] tag = "HandshakeResponseUnlock" -> 214
      [] tag = "DeliveryAcknowledgement" -> 1
      [] tag = "ServiceRequest" -> 5
      [] tag = "TerminationSignal" -> 1

\* FrameTag::size_hint
size_hint(tag) ==
    CASE tag = "HandshakeRequest" -> 33
      [] tag = "HandshakeResponse" -> 106
      [] tag = "HandshakeResponseUnlock" -> 214
      [] tag = "DeliveryAcknowledgement" -> 97
      [] tag = "ServiceRequest" -> 5
      [] tag = "TerminationSignal" -> 1

\* ---- CompressionAlgoSet (interfaces/src/types/compression.rs) -------------
\* From<u8> for CompressionAlgoSet keeps the five low bits
CompressionAlgoSetFromU8(val) == BitAnd(val, 31)

\* From<CompressionAlgoSet> for u8
CompressionAlgoSetIntoU8(set) == set

\* ---- HandshakeFrame values -------------------------------------------------
ClientKeys == {[i \in 1..20 |-> i], [i \in 1..20 |-> 255]}
NodeKeys == {[i \in 1..96 |-> 200 - i]}
Signatures == {[i \in 1..96 |-> i % 7]}
ResumeLanes == {None, Some(0), Some(23), Some(255)}
Words == {0, 16909060}                      \* 0x01020304: every byte differs

HandshakeRequest(version, set, pubkey, resume_lane) ==
    [tag |-> "HandshakeRequest", version |-> version,
     supported_compression_set |-> set, pubkey |-> pubkey,
     resume_lane |-> resume_lane]

HandshakeResponse(lane, pubkey, nonce) ==
    [tag |-> "HandshakeResponse", lane |-> lane, pubkey |-> pubkey, nonce |-> nonce]

HandshakeResponseUnlock(pubkey, nonce, lane, last_bytes, last_service_id, last_signature) ==
    [tag |-> "HandshakeResponseUnlock", pubkey |-> pubkey, nonce |-> nonce,
     lane |-> lane, last_bytes |-> last_bytes,
     last_service_id |-> last_service_id, last_signature |-> last_signature]

\* ClientSignature is a unit struct
DeliveryAcknowledgement == [tag |-> "DeliveryAcknowledgement"]

ServiceRequest(service_id) == [tag |-> "ServiceRequest", service_id |-> service_id]

TerminationSignal(reason) == [tag |-> "TerminationSignal", reason |-> reason]

Frames ==
    {HandshakeRequest(1, 13, k, l) : k \in ClientKeys, l \in ResumeLanes}
    \cup {HandshakeResponse(l, k, n) : l \in {0, 255}, k \in NodeKeys, n \in Words}
    \cup {HandshakeResponseUnlock(k, 1, 23, w, 16909060 - w, g) :
             k \in NodeKeys, w \in Words, g \in Signatures}
    \cup {DeliveryAcknowledgement}
    \cup {ServiceRequest(w) : w \in Words}
    \cup {TerminationSignal(r) : r \in Reasons}

\* ---- write_frame ------------------------------------------------------------
\* the bytes write_frame hands to the writer
write_frame(frame) ==
    CASE frame.tag = "TerminationSignal" -> <<ReasonAsU8(frame.reason)>>
      [] frame.tag = "HandshakeRequest" ->
            <<HANDSHAKE_REQ_TAG>> \o NETWORK \o <<frame.version>>
            \o <<CompressionAlgoSetIntoU8(frame.supported_compression_set)>>
            \o <<IF IsNone(frame.resume_lane) THEN 255 ELSE Unwrap(frame.resume_lane)>>
            \o frame.pubkey
      [] frame.tag = "HandshakeResponse" ->
            <<HANDSHAKE_RES_TAG, frame.lane>> \o frame.pubkey
            \o to_be_bytes(frame.nonce, 8)
      [] frame.tag = "HandshakeResponseUnlock" ->
            <<HANDSHAKE_RES_UNLOCK_TAG, frame.lane>> \o frame.pubkey
            \o to_be_bytes(frame.nonce, 8)
            \o to_be_bytes(frame.last_service_id, 4)
            \o to_be_bytes(frame.last_bytes, 8)
            \o frame.last_signature
      [] frame.tag = "DeliveryAcknowledgement" ->
            <<DELIVERY_ACK_TAG>> \o [i \in 1..96 |-> 0]
      [] frame.tag = "ServiceRequest" ->
            <<SERVICE_REQ_TAG>> \o to_be_bytes(frame.service_id, 4)

\* ---- parse_frame / read_frame ------------------------------------------------
\* buf[off .. off + len], offsets counted from 0 as in the source
Slice(buf, off, len) == SubSeq(buf, off + 1, off + len)

\* what parse_frame and read_frame give back: Frame (Ok(Some)), None
\* (Ok(None)), an io::Error kind, or Pending (read_frame awaits more bytes);
\* with the buffer, the pipe and the termination signals they leave behind
Parsed(kind, frame, buffer, signal) ==
    [kind |-> kind, frame |-> frame, buffer |-> buffer, signal |-> signal]

\* a variant that decodes the lane byte without the 0xFF case
LaneFromU8Plain(v) == Some(v)

\* the lane byte of a HandshakeRequest
LaneFromU8(v) == IF v = 255 THEN None ELSE Some(v)

\* the match on the tag at the end of parse_frame, on a whole frame `buf`
DecodeFrame(tag, buf, rest) ==
    CASE tag = "HandshakeRequest" ->
            IF Slice(buf, 1, 9) # NETWORK
            THEN Parsed("Other", None, rest, <<>>)           \* InvalidNetwork
            ELSE Parsed("Frame",
                        Some(HandshakeRequest(buf[11],
                                              CompressionAlgoSetFromU8(buf[12]),
                                              Slice(buf, 13, 20),
                                              LaneFromU8(buf[13]))),
                        rest, <<>>)
      [] tag = "HandshakeResponse" ->
            Parsed("Frame",
                   Some(HandshakeResponse(buf[2], Slice(buf, 2, 96),
                                          from_be_bytes(Slice(buf, 98, 8)))),
                   rest, <<>>)
      [] tag = "HandshakeResponseUnlock" ->
            Parsed("Frame",
                   Some(HandshakeResponseUnlock(Slice(buf, 2, 96),
                                                from_be_bytes(Slice(buf, 98, 8)),
                                                buf[2],
                                                from_be_bytes(Slice(buf, 110, 8)),
                                                from_be_bytes(Slice(buf, 106, 4)),
                                                Slice(buf, 118, 96))),
                   rest, <<>>)
      [] tag = "DeliveryAcknowledgement" ->
            Parsed("Frame", Some(DeliveryAcknowledgement), rest, <<>>)
      [] tag = "ServiceRequest" ->
            Parsed("Frame", Some(ServiceRequest(from_be_bytes(Slice(buf, 1, 4)))),
                   rest, <<>>)
      [] tag = "TerminationSignal" ->
            IF IsNone(ReasonFromU8(buf[1]))
            THEN Parsed("Other", None, rest, <<>>)           \* InvalidReason
            ELSE Parsed("Frame", Some(TerminationSignal(Unwrap(ReasonFromU8(buf[1])))),
                        rest, <<>>)

\* a variant that applies the filter only once the whole frame is buffered
parse_frame_FilterLate(buffer, filter) ==
    IF Len(buffer) = 0 THEN Parsed("None", None, buffer, <<>>)
    ELSE LET tag_byte == buffer[1]
             tag == FrameTagFromU8(tag_byte)
         IN IF IsNone(tag) THEN Parsed("InvalidData", None, buffer, <<>>)
            ELSE IF Len(buffer) < size_hint(Unwrap(tag))
            THEN Parsed("None", None, buffer, <<>>)
            ELSE IF ~IsNone(filter) /\ BitAnd(tag_byte, Unwrap(filter)) # tag_byte
            THEN Parsed("InvalidData", None, buffer,
                        write_frame(TerminationSignal("CodecViolation")))
            ELSE DecodeFrame(Unwrap(tag),
                             SubSeq(buffer, 1, size_hint(Unwrap(tag))),
                             SubSeq(buffer, size_hint(Unwrap(tag)) + 1, Len(buffer)))

parse_frame(buffer, filter) ==
    IF Len(buffer) = 0 THEN Parsed("None", None, buffer, <<>>)
    ELSE LET tag_byte == buffer[1]
             tag == FrameTagFromU8(tag_byte)
         IN IF ~IsNone(filter) /\ BitAnd(tag_byte, Unwrap(filter)) # tag_byte
            THEN Parsed("InvalidData", None, buffer,
                        write_frame(TerminationSignal("CodecViolation")))
            ELSE IF IsNone(tag) THEN Parsed("InvalidData", None, buffer, <<>>)
            ELSE IF Len(buffer) < size_hint(Unwrap(tag))
            THEN Parsed("None", None, buffer, <<>>)
            ELSE DecodeFrame(Unwrap(tag),
                             SubSeq(buffer, 1, size_hint(Unwrap(tag))),
                             SubSeq(buffer, size_hint(Unwrap(tag)) + 1, Len(buffer)))

ReadOutcome(p, pipe) ==
    [kind |-> p.kind, frame |-> p.frame, buffer |-> p.buffer, signal |-> p.signal,
     pipe |-> pipe]

RECURSIVE read_frame_EofNone(_, _, _, _)
\* a variant that answers Ok(None) at end of file whatever the buffer holds
read_frame_EofNone(buffer, pipe, filter, most) ==
    LET p == parse_frame(buffer, filter)
    IN IF p.kind # "None" THEN ReadOutcome(p, pipe)
       ELSE IF pipe = <<>>
       THEN IF ~hs_closed THEN ReadOutcome(Parsed("Pending", None, buffer, <<>>), pipe)
            ELSE ReadOutcome(p, pipe)
       ELSE LET n == Min(most, Len(pipe))
            IN read_frame_EofNone(buffer \o SubSeq(pipe, 1, n),
                                  SubSeq(pipe, n + 1, Len(pipe)), filter, most)

RECURSIVE read_frame(_, _, _, _)
\* the loop of read_frame; every read_buf returns at most `most` bytes
read_frame(buffer, pipe, filter, most) ==
    LET p == parse_frame(buffer, filter)
    IN IF p.kind # "None" THEN ReadOutcome(p, pipe)
       ELSE IF pipe = <<>>
       THEN IF ~hs_closed THEN ReadOutcome(Parsed("Pending", None, buffer, <<>>), pipe)
            ELSE IF buffer = <<>> THEN ReadOutcome(p, pipe)
            ELSE ReadOutcome(Parsed("ConnectionReset", None, buffer, <<>>), pipe)
       ELSE LET n == Min(most, Len(pipe))
            IN read_frame(buffer \o SubSeq(pipe, 1, n),
                          SubSeq(pipe, n + 1, Len(pipe)), filter, most)

\* ---- the two ends ------------------------------------------------------------
MaxFrames == 1
MaxReads == 2

\* bytes one read_buf may return
ChunkSizes == {4, 33, 256}

\* tag filters handed to read_frame: none, the handshake responses only,
\* every frame but a termination signal
Filters == {None, Some(HANDSHAKE_RES_TAG + HANDSHAKE_RES_UNLOCK_TAG), Some(31)}

\* a HandshakeRequest written for another network
ForeignRequest ==
    [write_frame(HandshakeRequest(1, 13, [i \in 1..20 |-> i], None)) EXCEPT ![2] = 77]

\* bytes a peer that does not use write_frame may send: the first byte of
\* every frame kind, bytes that are no tag, the start of a service request,
\* a termination signal followed by the start of a service request, a
\* request with a foreign network name
RawInputs ==
    {<<t>> : t \in {HANDSHAKE_REQ_TAG, HANDSHAKE_RES_TAG, HANDSHAKE_RES_UNLOCK_TAG,
                    DELIVERY_ACK_TAG, SERVICE_REQ_TAG, 0, 3, 32, 127}}
    \cup {<<SERVICE_REQ_TAG, 1, 2>>, <<TERMINATION_FLAG + 1, SERVICE_REQ_TAG, 1>>,
          ForeignRequest}

HandshakeStart ==
    /\ hs_sent = <<>> /\ hs_raw = FALSE /\ hs_pipe = <<>> /\ hs_closed = FALSE
    /\ hs_buffer = <<>> /\ hs_out = <<>> /\ hs_got = <<>>

\* one end: conn.write_frame(frame); the frames come before any other bytes
WriteFrame ==
    /\ ~hs_closed /\ ~hs_raw /\ Len(hs_sent) < MaxFrames
    /\ \E frame \in Frames :
          /\ hs_sent' = Append(hs_sent, frame)
          /\ hs_pipe' = hs_pipe \o write_frame(frame)
    /\ UNCHANGED <<hs_raw, hs_closed, hs_buffer, hs_out, hs_got, nonHsVars>>

\* frames one end writes back to back before the other end reads
MaxBurst == 2

RECURSIVE WriteAll(_)
\* the bytes successive write_frame calls hand to the writer
WriteAll(frames) ==
    IF frames = <<>> THEN <<>> ELSE write_frame(Head(frames)) \o WriteAll(Tail(frames))

\* one end: conn.write_frame(frame) for two or more frames in a row
WriteFrames ==
    /\ ~hs_closed /\ ~hs_raw /\ hs_sent = <<>>
    /\ \E n \in 2..MaxBurst : \E frames \in [1..n -> Frames] :
          /\ hs_sent' = frames
          /\ hs_pipe' = hs_pipe \o WriteAll(frames)
    /\ UNCHANGED <<hs_raw, hs_closed, hs_buffer, hs_out, hs_got, nonHsVars>>

\* one end writes to its stream without write_frame, from its first byte on
WriteRaw ==
    /\ ~hs_closed /\ ~hs_raw /\ hs_sent = <<>>
    /\ \E bytes \in RawInputs : hs_pipe' = hs_pipe \o bytes
    /\ hs_raw' = TRUE
    /\ UNCHANGED <<hs_sent, hs_closed, hs_buffer, hs_out, hs_got, nonHsVars>>

\* one end drops its connection
CloseWriter ==
    /\ ~hs_closed
    /\ hs_closed' = TRUE
    /\ UNCHANGED <<hs_sent, hs_raw, hs_pipe, hs_buffer, hs_out, hs_got, nonHsVars>>

\* the first byte a read_frame call finds, buffered or still in the pipe
FirstByte(buffer, pipe) ==
    IF buffer \o pipe = <<>> THEN None ELSE Some((buffer \o pipe)[1])

\* the other end: conn.read_frame(filter), once it has returned; with each
\* result are kept the filter, the first byte the call found, the bytes that
\* were there for it to take (avail), the bytes it took out of the buffer
\* (consumed), the bytes it wrote to its own writer (signal) and whether the
\* reader was at end of file with nothing left
ReadFrame ==
    /\ Len(hs_got) < MaxReads
    /\ \E filter \in Filters, most \in ChunkSizes :
          LET r == read_frame(hs_buffer, hs_pipe, filter, most)
          IN /\ r.kind # "Pending"
             /\ hs_buffer' = r.buffer
             /\ hs_pipe' = r.pipe
             /\ hs_out' = hs_out \o r.signal
             /\ hs_got' = Append(hs_got,
                    [kind |-> r.kind, frame |-> r.frame, filter |-> filter,
                     first |-> FirstByte(hs_buffer, hs_pipe),
                     avail |-> Len(hs_buffer) + Len(hs_pipe),
                     consumed |-> Len(hs_buffer) + Len(hs_pipe)
                                  - Len(r.buffer) - Len(r.pipe),
                     left |-> Len(r.buffer),
                     signal |-> r.signal,
                     eof |-> hs_closed /\ r.pipe = <<>>])
    /\ UNCHANGED <<hs_sent, hs_raw, hs_closed, nonHsVars>>

\* ========================================================================
\* 5. Batch pool (core/consensus/src/edge_node/pool.rs)
\* ========================================================================
MaxStores == 2
MaxGets == 2

\* a batch as a worker hands it over: its digest, and which of the deliveries
\* of that digest it is
Batch(digest, copy) == [digest |-> digest, copy |-> copy]
Batches == {Batch(d, c) : d \in Digests, c \in 1..2}

\* a variant of the insertion that replaces the batch under a digest
InsertOverwrite(m, batch) ==
    [d \in DOMAIN m \cup {batch.digest} |-> IF d = batch.digest THEN batch ELSE m[d]]

\* the insertion of store(batch): by digest, a digest that is present stays
Insert(m, batch) ==
    IF batch.digest \in DOMAIN m THEN m
    ELSE [d \in DOMAIN m \cup {batch.digest} |->
              IF d = batch.digest THEN batch ELSE m[d]]

\* the get futures that wait for digest d
WaitersOf(gets, d) ==
    {i \in 1..Len(gets) : gets[i].state = "pending" /\ gets[i].digest = d}

\* a variant of the signal that wakes the first waiter only
SignalOne(gets, d) ==
    [i \in 1..Len(gets) |->
        IF i \in WaitersOf(gets, d) /\ \A j \in WaitersOf(gets, d) : i <= j
        THEN [gets[i] EXCEPT !.state = "woken"] ELSE gets[i]]

\* the signal of store(batch): every waiter of the digest is taken out of the
\* waiter set and woken
Signal(gets, d) ==
    [i \in 1..Len(gets) |->
        IF i \in WaitersOf(gets, d)
        THEN [gets[i] EXCEPT !.state = "woken"] ELSE gets[i]]

PoolStart ==
    /\ bp_batches = <<>> /\ bp_gets = <<>> /\ bp_stores = 0 /\ bp_op = "new"

\* pool.store(batch): insert and signal, in one critical section
BatchPoolStore ==
    /\ bp_stores < MaxStores
    /\ \E batch \in Batches :
          /\ bp_batches' = Insert(bp_batches, batch)
          /\ bp_gets' = Signal(bp_gets, batch.digest)
    /\ bp_stores' = bp_stores + 1
    /\ bp_op' = "store"
    /\ UNCHANGED nonPoolVars

\* pool.get(digest): a future that is ready if the batch is present and that
\* joins the waiter set if it is not
BatchPoolGet ==
    /\ Len(bp_gets) < MaxGets
    /\ \E d \in Digests :
          bp_gets' = Append(bp_gets,
                            IF d \in DOMAIN bp_batches
                            THEN [digest |-> d, state |-> "ready",
                                  batch |-> Some(bp_batches[d])]
                            ELSE [digest |-> d, state |-> "pending", batch |-> None])
    /\ bp_op' = "get"
    /\ UNCHANGED <<bp_batches, bp_stores, nonPoolVars>>

\* a woken get future is polled and resolves to the batch
BatchPoolWake ==
    /\ \E i \in 1..Len(bp_gets) :
          /\ bp_gets[i].state = "woken"
          /\ bp_gets' = [bp_gets EXCEPT ![i].state = "ready",
                                        ![i].batch = Some(bp_batches[bp_gets[i].digest])]
    /\ bp_op' = "wake"
    /\ UNCHANGED <<bp_batches, bp_stores, nonPoolVars>>

\* the caller drops a get future that has not resolved
BatchPoolCancel ==
    /\ \E i \in 1..Len(bp_gets) :
          /\ bp_gets[i].state \in {"pending", "woken"}
          /\ bp_gets' = [bp_gets EXCEPT ![i].state = "cancelled"]
    /\ bp_op' = "cancel"
    /\ UNCHANGED <<bp_batches, bp_stores, nonPoolVars>>

\* ========================================================================
\* 6. In-memory block store (core/blockstore/src/memory.rs)
\* ========================================================================
MaxStoreOps == 3

\* Key::tree_key(hash), Key::chunk_key(hash, counter)
Key(kind, hash, counter) == [kind |-> kind, hash |-> hash, counter |-> counter]
Keys == {Key("tree", 1, 0), Key("chunk", 1, 0)}

\* Block = Vec<u8>
Blocks == {<<1, 2>>, <<3>>}

\* HashMap::insert
HashMapInsert(m, key, block) == [m EXCEPT ![key] = Some(block)]

\* HashMap::get(key).cloned()
HashMapGet(m, key) == m[key]

\* MemoryBlockStore::init: an empty map
MemoryBlockStoreInit == bs_inner = [k \in Keys |-> None] /\ bs_log = <<>>

\* Store::insert, under the write lock
MemoryBlockStoreInsert ==
    /\ Len(bs_log) < MaxStoreOps
    /\ \E key \in Keys, block \in Blocks :
          /\ bs_inner' = HashMapInsert(bs_inner, key, block)
          /\ bs_log' = Append(bs_log, [op |-> "insert", key |-> key,
                                       block |-> Some(block)])
    /\ UNCHANGED nonStoreVars

\* Store::fetch, under the read lock
MemoryBlockStoreFetch ==
    /\ Len(bs_log) < MaxStoreOps
    /\ \E key \in Keys :
          bs_log' = Append(bs_log, [op |-> "fetch", key |-> key,
                                    block |-> HashMapGet(bs_inner, key)])
    /\ UNCHANGED <<bs_inner, nonStoreVars>>

\* ========================================================================
\* 7. Classification of a tag byte (core/handshake/src/connection.rs)
\* ========================================================================
\* any u8, not yet classified
TagStart == cl_byte \in 0..255 /\ cl_out = None

\* is_termination_signal(byte) and FrameTag::from_u8(byte)
ClassifyByte ==
    /\ cl_out = None
    /\ cl_out' = Some([termination |-> is_termination_signal(cl_byte),
                       tag |-> FrameTagFromU8(cl_byte)])
    /\ UNCHANGED <<cl_byte, nonTagVars>>

\* ========================================================================
\* 8. Compression set (core/interfaces/src/types/compression.rs)
\* ========================================================================
MaxSetOps == 2

\* CompressionAlgorithm and `algo as u8`
CompressionAlgorithm == {"Uncompressed", "Snappy", "Gzip", "Brotli", "Lz4", "Lzma"}

AlgoAsU8(algo) ==
    CASE algo = "Uncompressed" -> 0
      [] algo = "Snappy" -> 1
      [] algo = "Gzip" -> 2
      [] algo = "Brotli" -> 4
      [] algo = "Lz4" -> 8
      [] algo = "Lzma" -> 16

\* the compression bitmap values of the handshake codec (connection.rs, consts)
SNAPPY == 1
GZIP == 4
LZ4 == 8

RECURSIVE BitOr(_, _)
\* a | b on unsigned integers
BitOr(a, b) ==
    IF a = 0 THEN b
    ELSE IF b = 0 THEN a
    ELSE (IF a % 2 = 1 \/ b % 2 = 1 THEN 1 ELSE 0) + 2 * BitOr(a \div 2, b \div 2)

\* !a on a u8
BitNot(a) == 255 - a

\* CompressionAlgoSet::new
CompressionAlgoSetNew == 0

\* a variant of remove that clears the whole set
removeAll(set, algo) == 0

\* CompressionAlgoSet::insert, remove, contains, intersect
insert(set, algo) == BitOr(set, AlgoAsU8(algo))

remove(set, algo) == BitAnd(set, BitNot(AlgoAsU8(algo)))

contains(set, algo) == BitAnd(set, AlgoAsU8(algo)) # 0 \/ algo = "Uncompressed"

intersect(set, other) == BitAnd(set, other)

\* one applied operation
SetOp(op, arg, before, after) == [op |-> op, arg |-> arg, before |-> before, after |-> after]

\* any set a caller can hold: new(), or From<u8> of any byte
CompressionStart == cs_set \in {CompressionAlgoSetFromU8(v) : v \in 0..255} /\ cs_log = <<>>

CompressionInsert ==
    /\ Len(cs_log) < MaxSetOps
    /\ \E algo \in CompressionAlgorithm :
          /\ cs_set' = insert(cs_set, algo)
          /\ cs_log' = Append(cs_log, SetOp("insert", algo, cs_set, insert(cs_set, algo)))
    /\ UNCHANGED nonCompVars

CompressionRemove ==
    /\ Len(cs_log) < MaxSetOps
    /\ \E algo \in CompressionAlgorithm :
          /\ cs_set' = remove(cs_set, algo)
          /\ cs_log' = Append(cs_log, SetOp("remove", algo, cs_set, remove(cs_set, algo)))
    /\ UNCHANGED nonCompVars

\* the other set is what a peer announced in its HandshakeRequest
CompressionIntersect ==
    /\ Len(cs_log) < MaxSetOps
    /\ \E other \in {CompressionAlgoSetFromU8(v) : v \in {0, 10, 255}} :
          /\ cs_set' = intersect(cs_set, other)
          /\ cs_log' = Append(cs_log, SetOp("intersect", other, cs_set, intersect(cs_set, other)))
    /\ UNCHANGED nonCompVars

\* the set is replaced by one read from the wire
CompressionFromU8 ==
    /\ Len(cs_log) < MaxSetOps
    /\ \E val \in {0, 2, 4, 224} :
          /\ cs_set' = CompressionAlgoSetFromU8(val)
          /\ cs_log' = Append(cs_log, SetOp("from", val, cs_set, CompressionAlgoSetFromU8(val)))
    /\ UNCHANGED nonCompVars

\* ========================================================================
\* 9. Simulation engine (lib/simulon/src/simulation.rs)
\* ========================================================================
NumWorkers == 2
NumNodes == 2

\* the longest run, in frames (duration / FRAME_DURATION)
MaxDuration == 3
\* the most frames run_post_frame moves forward at once
MaxSkip == 2

\* stands for usize::MAX, which stop_threads stores in `frame`: a value above
\* every frame number a run of MaxDuration frames reaches
USIZE_MAX == 1000

Workers == 1..NumWorkers

\* SimulationBuilder::build, and `run` up to its first statement
SimulationBuild ==
    /\ sim_main = "start_threads"
    /\ sim_n \in 1..MaxDuration
    /\ sim_saved = 0
    /\ sim_frame = 0 /\ sim_cursor = 0 /\ sim_ready = 0
    /\ sim_pc = [w \in Workers |-> "unborn"]
    /\ sim_current = [w \in Workers |-> 0]

\* ---- the main thread --------------------------------------------------------
\* start_threads: one thread per worker; the JoinHandles are dropped
StartThreads ==
    /\ sim_main = "start_threads"
    /\ sim_pc' = [w \in Workers |-> "load"]
    /\ sim_main' = "wait_zero"
    /\ UNCHANGED <<sim_n, sim_saved, sim_frame, sim_cursor, sim_ready, sim_current,
                   nonSimVars>>

\* wait_for_workers has seen ready_workers == num_workers
WaitForWorkers ==
    /\ sim_main \in {"wait_zero", "wait"}
    /\ sim_ready = NumWorkers
    /\ sim_main' = IF sim_main = "wait_zero" THEN "frame_zero" ELSE "reset"
    /\ UNCHANGED <<sim_n, sim_saved, sim_frame, sim_cursor, sim_ready, sim_pc,
                   sim_current, nonSimVars>>

\* frame zero: ready_workers.store(0); frame.fetch_add(1)
FrameZero ==
    /\ sim_main = "frame_zero"
    /\ sim_ready' = 0
    /\ sim_frame' = sim_frame + 1
    /\ sim_main' = "while"
    /\ UNCHANGED <<sim_n, sim_saved, sim_cursor, sim_pc, sim_current, nonSimVars>>

\* `while n > 1`
While ==
    /\ sim_main = "while"
    /\ sim_main' = IF sim_n > 1 THEN "wait" ELSE "stop_threads"
    /\ UNCHANGED <<sim_n, sim_saved, sim_frame, sim_cursor, sim_ready, sim_pc,
                   sim_current, nonSimVars>>

\* ready_workers.store(0); cursor.store(0); run_post_frame is entered
ResetAndEnterPostFrame ==
    /\ sim_main = "reset"
    /\ sim_ready' = 0
    /\ sim_cursor' = 0
    /\ sim_main' = "run_post_frame"
    /\ UNCHANGED <<sim_n, sim_saved, sim_frame, sim_pc, sim_current, nonSimVars>>

\* run_post_frame returns: Some(skip) when a node has an event to come (the
\* run's duration covering it), None when no node has
RunPostFrame ==
    /\ sim_main = "run_post_frame"
    /\ \/ \E skip \in 1..Min(MaxSkip, sim_n) :
             /\ sim_n' = sim_n - skip
             /\ sim_frame' = sim_frame + skip
             /\ sim_main' = "while"
       \/ /\ sim_main' = "stop_threads"
          /\ UNCHANGED <<sim_n, sim_frame>>
    /\ UNCHANGED <<sim_saved, sim_cursor, sim_ready, sim_pc, sim_current, nonSimVars>>

\* stop_threads: frame is saved and set to usize::MAX
StopThreads ==
    /\ sim_main = "stop_threads"
    /\ sim_saved' = sim_frame
    /\ sim_frame' = USIZE_MAX
    /\ sim_main' = "join"
    /\ UNCHANGED <<sim_n, sim_cursor, sim_ready, sim_pc, sim_current, nonSimVars>>

\* `while let Some(handle) = self.workers.pop()` finds self.workers empty (no
\* handle was ever pushed); frame is restored and `finish` is entered
JoinAndEnterFinish ==
    /\ sim_main = "join"
    /\ sim_frame' = sim_saved
    /\ sim_main' = "finish"
    /\ UNCHANGED <<sim_n, sim_saved, sim_cursor, sim_ready, sim_pc, sim_current,
                   nonSimVars>>

\* finish returns the report
Finish ==
    /\ sim_main = "finish"
    /\ sim_main' = "returned"
    /\ UNCHANGED <<sim_n, sim_saved, sim_frame, sim_cursor, sim_ready, sim_pc,
                   sim_current, nonSimVars>>

\* ---- a worker thread --------------------------------------------------------
\* let mut current_frame = state.frame.load(..)
WorkerLoad(w) ==
    /\ sim_pc[w] = "load"
    /\ sim_current' = [sim_current EXCEPT ![w] = sim_frame]
    /\ sim_pc' = [sim_pc EXCEPT ![w] = "signal"]
    /\ UNCHANGED <<sim_main, sim_n, sim_saved, sim_frame, sim_cursor, sim_ready,
                   nonSimVars>>

\* state.ready_workers.fetch_add(1)
WorkerSignal(w) ==
    /\ sim_pc[w] = "signal"
    /\ sim_ready' = sim_ready + 1
    /\ sim_pc' = [sim_pc EXCEPT ![w] = "wait_for_next_frame"]
    /\ UNCHANGED <<sim_main, sim_n, sim_saved, sim_frame, sim_cursor, sim_current,
                   nonSimVars>>

\* wait_for_next_frame returns: None on usize::MAX, Some(frame) on a frame
\* above current_frame; it spins otherwise
WaitForNextFrame(w) ==
    /\ sim_pc[w] = "wait_for_next_frame"
    /\ IF sim_frame = USIZE_MAX
       THEN /\ sim_pc' = [sim_pc EXCEPT ![w] = "exited"]
            /\ UNCHANGED sim_current
       ELSE /\ sim_frame > sim_current[w]
            /\ sim_current' = [sim_current EXCEPT ![w] = sim_frame]
            /\ sim_pc' = [sim_pc EXCEPT ![w] = "cursor"]
    /\ UNCHANGED <<sim_main, sim_n, sim_saved, sim_frame, sim_cursor, sim_ready,
                   nonSimVars>>

\* let index = state.cursor.fetch_add(1); past the last node the worker goes
\* back to signal; a stalled node (after frame 0) ends the frame for the
\* worker before worker_state is touched; else execute_node runs the node
WorkerCursor(w) ==
    /\ sim_pc[w] = "cursor"
    /\ sim_cursor' = sim_cursor + 1
    /\ IF sim_cursor >= NumNodes
       THEN sim_pc' = [sim_pc EXCEPT ![w] = "signal"]
       ELSE \E is_stalled \in BOOLEAN :
               sim_pc' = [sim_pc EXCEPT ![w] =
                             IF is_stalled /\ sim_current[w] - 1 > 0 THEN "signal"
                             ELSE "execute_node"]
    /\ UNCHANGED <<sim_main, sim_n, sim_saved, sim_frame, sim_ready, sim_current,
                   nonSimVars>>

\* execute_node has run the node, appended to worker_state.outgoing and
\* inserted into worker_state.metrics, and returned false
ExecuteNode(w) ==
    /\ sim_pc[w] = "execute_node"
    /\ sim_pc' = [sim_pc EXCEPT ![w] = "cursor"]
    /\ UNCHANGED <<sim_main, sim_n, sim_saved, sim_frame, sim_cursor, sim_ready,
                   sim_current, nonSimVars>>

\* ========================================================================
\* 10. Block lengths a decoder derives from a header
\* ========================================================================
\* content lengths a header may carry: 0, and every length up to one block
\* more than the longest content streamed above
HeaderLens == 0..(MaxLen + BLOCK_SIZE)

\* VerifiedDecoder::new, with the 8 bytes of the header in the read buffer
HeaderStart ==
    /\ hd_len \in HeaderLens
    /\ hd_checks \in BOOLEAN
    /\ hd_dec = [VerifiedDecoderNew EXCEPT !.read_buffer = to_be_bytes(hd_len, 8)]
    /\ hd_lens = <<>>
    /\ hd_panic = FALSE

\* the WaitingForHeader arm
HeaderArm ==
    /\ ~hd_panic /\ hd_dec.state.kind = "WaitingForHeader"
    /\ hd_dec' = OnHeader(hd_dec)
    /\ UNCHANGED <<hd_len, hd_checks, hd_lens, hd_panic, nonHdVars>>

\* the WaitingForProof arm, the proof being there and accepted
ProofArm ==
    /\ ~hd_panic /\ hd_dec.state.kind = "WaitingForProof"
    /\ IF SubtractOverflows(hd_dec) /\ hd_checks
       THEN hd_panic' = TRUE /\ UNCHANGED hd_dec
       ELSE /\ hd_dec' = [hd_dec EXCEPT !.state = WaitingForBlock(NextBlockLen(hd_dec))]
            /\ UNCHANGED hd_panic
    /\ UNCHANGED <<hd_len, hd_checks, hd_lens, nonHdVars>>

\* the WaitingForBlock arm, the block being there and verified
BlockArm ==
    /\ ~hd_panic /\ hd_dec.state.kind = "WaitingForBlock"
    /\ hd_lens' = Append(hd_lens, hd_dec.state.size)
    /\ hd_dec' = [hd_dec EXCEPT !.block = @ + 1, !.state = AfterBlock(hd_dec)]
    /\ UNCHANGED <<hd_len, hd_checks, hd_panic, nonHdVars>>

\* ========================================================================
\* 11. Signer lifecycle (WithStartAndShutdown for Signer)
\* ========================================================================
\* threads that call start and shutdown on the same Signer
NumCallers == 2
\* calls of start and shutdown made in all
MaxCalls == 3

Callers == 1..NumCallers

\* Signer::init: not running, the receiver parked in `rx`; the mempool socket,
\* the query runner and the new-block notify have been provided
SignerInitialized ==
    /\ lc_is_running = FALSE
    /\ lc_rx = "parked"
    /\ lc_permit = FALSE
    /\ lc_task = "none"
    /\ lc_spawned = 0
    /\ lc_callers = [c \in Callers |-> "idle"]
    /\ lc_calls = 0
    /\ lc_last = [op |-> "init", saw_running |-> FALSE]

\* a variant of the test at the head of start that ignores the flag
StartsAnyway(running) == TRUE

\* if !*self.is_running.lock().unwrap()
Starts(running) == ~running

\* start, up to the test of is_running; a call that finds the signer running
\* returns at once
StartTest(c) ==
    /\ lc_callers[c] = "idle" /\ lc_calls < MaxCalls
    /\ lc_calls' = lc_calls + 1
    /\ lc_callers' = [lc_callers EXCEPT ![c] =
                         IF Starts(lc_is_running) THEN "take_rx" ELSE "idle"]
    /\ lc_last' = [op |-> "start", saw_running |-> lc_is_running]
    /\ UNCHANGED <<lc_is_running, lc_rx, lc_permit, lc_task, lc_spawned, nonLcVars>>

\* self.rx.lock().unwrap().take().unwrap() and tokio::spawn: with the
\* receiver gone the second unwrap panics while the lock is held, which
\* poisons the mutex, and on a poisoned mutex the first unwrap panics
StartSpawn(c) ==
    /\ lc_callers[c] = "take_rx"
    /\ IF lc_rx = "parked"
       THEN /\ lc_rx' = "taken"
            /\ lc_spawned' = lc_spawned + 1
            /\ lc_task' = "running"
            /\ lc_callers' = [lc_callers EXCEPT ![c] = "set_running"]
       ELSE /\ lc_rx' = "poisoned"
            /\ lc_callers' = [lc_callers EXCEPT ![c] = "panicked"]
            /\ UNCHANGED <<lc_spawned, lc_task>>
    /\ lc_last' = [op |-> "spawn", saw_running |-> FALSE]
    /\ UNCHANGED <<lc_is_running, lc_permit, lc_calls, nonLcVars>>

\* *self.is_running.lock().unwrap() = true
StartSetRunning(c) ==
    /\ lc_callers[c] = "set_running"
    /\ lc_is_running' = TRUE
    /\ lc_callers' = [lc_callers EXCEPT ![c] = "idle"]
    /\ lc_last' = [op |-> "set_running", saw_running |-> FALSE]
    /\ UNCHANGED <<lc_rx, lc_permit, lc_task, lc_spawned, lc_calls, nonLcVars>>

\* shutdown: self.shutdown_notify.notify_one()
ShutdownNotify(c) ==
    /\ lc_callers[c] = "idle" /\ lc_calls < MaxCalls
    /\ lc_calls' = lc_calls + 1
    /\ lc_permit' = TRUE
    /\ lc_callers' = [lc_callers EXCEPT ![c] = "clear_running"]
    /\ lc_last' = [op |-> "notify_one", saw_running |-> FALSE]
    /\ UNCHANGED <<lc_is_running, lc_rx, lc_task, lc_spawned, nonLcVars>>

\* shutdown: *self.is_running.lock().unwrap() = false
ShutdownClearRunning(c) ==
    /\ lc_callers[c] = "clear_running"
    /\ lc_is_running' = FALSE
    /\ lc_callers' = [lc_callers EXCEPT ![c] = "idle"]
    /\ lc_last' = [op |-> "clear_running", saw_running |-> FALSE]
    /\ UNCHANGED <<lc_rx, lc_permit, lc_task, lc_spawned, lc_calls, nonLcVars>>

\* the task takes the permit at `_ = shutdown_notify.notified() => break`
TaskBreak ==
    /\ lc_task = "running" /\ lc_permit
    /\ lc_task' = "ended"
    /\ lc_permit' = FALSE
    /\ lc_last' = [op |-> "break", saw_running |-> FALSE]
    /\ UNCHANGED <<lc_is_running, lc_rx, lc_spawned, lc_callers, lc_calls, nonLcVars>>

\* ========================================================================
\* Specifications: one per subsystem; the other subsystems stay idle
\* ========================================================================
SignerIdle ==
    /\ app_nonce = 0 /\ base_nonce = 0 /\ next_nonce = 1 /\ pending = <<>>
    /\ base_timestamp = None /\ now = 0 /\ mempool = {} /\ returned = <<>>
    /\ sent = <<>> /\ rejected = {} /\ cycle_start = 0 /\ last_op = "init"
    /\ signer_pc = "loop" /\ is_running = TRUE /\ shutdown_notify = FALSE
    /\ shutdown_during = "none" /\ steps = <<>>

PipelineIdle ==
    /\ shutdown_sent = FALSE /\ n_certs = 0 /\ pool = {} /\ recv_pc = "select"
    /\ recv_cert = None /\ new_certificates = <<>> /\ engine_pc = "running"
    /\ dag = <<>> /\ committed = <<>> /\ rx_sequence = <<>> /\ prod_pc = "select"
    /\ waiting = <<>> /\ outputs = <<>> /\ recv_iters = 0 /\ fetch_gets = <<>>

ConsensusIdle == PipelineIdle /\ received = [on |-> FALSE, msgs |-> <<>>]

\* the pipeline as spawned, with the receiver's messages recorded
ReceiverStart == PipelineIdle /\ received = [on |-> TRUE, msgs |-> <<>>]


HandshakeIdle == HandshakeStart

StreamIdle ==
    /\ phase = "idle" /\ content = <<>> /\ written = 0 /\ writes = 0
    /\ enc = EncoderNew(0) /\ wire = <<>> /\ corrupted = 0 /\ chunk = BLOCK_SIZE
    /\ truncated = FALSE
    /\ rd_pos = 0 /\ dec = VerifiedDecoderNew /\ delivered = <<>>
    /\ last_read = None /\ failed_at = None /\ small_buf = FALSE

PoolIdle == PoolStart

StoreIdle == MemoryBlockStoreInit

TagIdle == cl_byte = 0 /\ cl_out = None

CompressionIdle == cs_set = CompressionAlgoSetNew /\ cs_log = <<>>

SimulationIdle ==
    /\ sim_main = "idle" /\ sim_n = 0 /\ sim_saved = 0 /\ sim_frame = 0
    /\ sim_cursor = 0 /\ sim_ready = 0 /\ sim_pc = [w \in Workers |-> "unborn"]
    /\ sim_current = [w \in Workers |-> 0]

HeaderIdle ==
    /\ hd_len = 0 /\ hd_checks = FALSE /\ hd_dec = VerifiedDecoderNew
    /\ hd_lens = <<>> /\ hd_panic = FALSE

LifecycleIdle == SignerInitialized

LibIdle ==
    /\ StoreIdle /\ TagIdle /\ CompressionIdle /\ SimulationIdle /\ HeaderIdle
    /\ LifecycleIdle

NodeIdle == SignerIdle /\ ConsensusIdle /\ StreamIdle /\ HandshakeIdle /\ PoolIdle

SignerInit == SignerStart /\ ConsensusIdle /\ StreamIdle /\ HandshakeIdle /\ PoolIdle /\ LibIdle

SignerNext == Submit \/ NewBlock \/ Shutdown \/ ShutdownBranch \/ ExecuteTx \/ Tick

SignerSpec == SignerInit /\ [][SignerNext]_vars

\* tokio::select! polls its branches in random order: a branch that stays
\* ready is taken sooner or later
SignerFairSpec == SignerSpec /\ WF_vars(ShutdownBranch)

\* EdgeConsensus::spawn: empty channels, empty pool, three running tasks.
ConsensusInit == ConsensusIdle /\ SignerIdle /\ StreamIdle /\ HandshakeIdle /\ PoolIdle /\ LibIdle

ConsensusNext ==
    \/ SendShutdown
    \/ ReceiverShutdown
    \/ \E d \in Digests : ReceiverBatch(d)
    \/ \E c \in SUBSET Digests : ReceiverCertificate(c)
    \/ ReceiverSendWake
    \/ ReceiverIgnore
    \/ EngineRecv
    \/ EngineCommit
    \/ EngineShutdown
    \/ ProducerShutdown
    \/ ProducerRecv
    \/ ProducerPoll
    \/ ProducerOutput

ConsensusSpec == ConsensusInit /\ [][ConsensusNext]_vars

\* tokio polls every ready task and select! picks among the ready branches at
\* random, so a branch that stays ready is eventually taken; batches arrive
\* only if peers send them, so the receiver's message branches are not fair.
ConsensusFairSpec ==
    /\ ConsensusSpec
    /\ WF_vars(EngineRecv)
    /\ WF_vars(ProducerRecv)
    /\ WF_vars(ProducerPoll)
    /\ WF_vars(ProducerOutput)
    /\ WF_vars(ProducerShutdown)
    /\ WF_vars(ReceiverShutdown)
    /\ WF_vars(ReceiverSendWake)
    /\ WF_vars(EngineShutdown)


ReceiverInit == ReceiverStart /\ SignerIdle /\ StreamIdle /\ HandshakeIdle /\ PoolIdle /\ LibIdle

\* the receiver, the ordering engine it feeds and the shutdown signal
ReceiverNext ==
    \/ SendShutdown
    \/ ReceiverShutdown
    \/ \E d \in Digests : ReceiverBatch(d)
    \/ \E c \in SUBSET Digests : ReceiverCertificate(c)
    \/ ReceiverSendWake
    \/ ReceiverIgnore
    \/ EngineRecv
    \/ EngineCommit
    \/ EngineShutdown

ReceiverSpec == ReceiverInit /\ [][ReceiverNext]_vars

StreamInit == StreamStart /\ SignerIdle /\ ConsensusIdle /\ HandshakeIdle /\ PoolIdle /\ LibIdle

StreamNext == StreamWrite \/ StartDecoding \/ Corrupt \/ Truncate \/ DecoderRead

StreamSpec == StreamInit /\ [][StreamNext]_vars

HandshakeInit == HandshakeStart /\ SignerIdle /\ ConsensusIdle /\ StreamIdle /\ PoolIdle /\ LibIdle

HandshakeNext == WriteFrame \/ WriteRaw \/ CloseWriter \/ ReadFrame

HandshakeSpec == HandshakeInit /\ [][HandshakeNext]_vars

\* a connection that carries several frames at once
FramingNext == WriteFrames \/ CloseWriter \/ ReadFrame

FramingSpec == HandshakeInit /\ [][FramingNext]_vars

PoolInit == PoolStart /\ SignerIdle /\ ConsensusIdle /\ StreamIdle /\ HandshakeIdle /\ LibIdle

PoolNext == BatchPoolStore \/ BatchPoolGet \/ BatchPoolWake \/ BatchPoolCancel

PoolSpec == PoolInit /\ [][PoolNext]_vars

\* a woken future is polled by the task that awaits it unless it is dropped
PoolFairSpec == PoolSpec /\ WF_vars(BatchPoolWake)

StoreInit == MemoryBlockStoreInit /\ NodeIdle /\ TagIdle /\ CompressionIdle /\ SimulationIdle /\ HeaderIdle /\ LifecycleIdle

StoreNext == MemoryBlockStoreInsert \/ MemoryBlockStoreFetch

StoreSpec == StoreInit /\ [][StoreNext]_vars

TagInit == TagStart /\ NodeIdle /\ StoreIdle /\ CompressionIdle /\ SimulationIdle /\ HeaderIdle /\ LifecycleIdle

TagNext == ClassifyByte

TagSpec == TagInit /\ [][TagNext]_vars

CompressionInit == CompressionStart /\ NodeIdle /\ StoreIdle /\ TagIdle /\ SimulationIdle /\ HeaderIdle /\ LifecycleIdle

CompressionNext == CompressionInsert \/ CompressionRemove \/ CompressionIntersect \/ CompressionFromU8

CompressionSpec == CompressionInit /\ [][CompressionNext]_vars

SimulationInit == SimulationBuild /\ NodeIdle /\ StoreIdle /\ TagIdle /\ CompressionIdle /\ HeaderIdle /\ LifecycleIdle

SimulationNext ==
    \/ StartThreads \/ WaitForWorkers \/ FrameZero \/ While
    \/ ResetAndEnterPostFrame \/ RunPostFrame \/ StopThreads
    \/ JoinAndEnterFinish \/ Finish
    \/ \E w \in Workers : \/ WorkerLoad(w) \/ WorkerSignal(w) \/ WaitForNextFrame(w)
                          \/ WorkerCursor(w) \/ ExecuteNode(w)

SimulationSpec == SimulationInit /\ [][SimulationNext]_vars

HeaderInit == HeaderStart /\ NodeIdle /\ StoreIdle /\ TagIdle /\ CompressionIdle /\ SimulationIdle /\ LifecycleIdle

HeaderNext == HeaderArm \/ ProofArm \/ BlockArm

HeaderSpec == HeaderInit /\ [][HeaderNext]_vars

LifecycleInit ==
    /\ SignerInitialized /\ NodeIdle /\ StoreIdle /\ TagIdle /\ CompressionIdle
    /\ SimulationIdle /\ HeaderIdle

LifecycleNext ==
    \/ \E c \in Callers : \/ StartTest(c) \/ StartSpawn(c) \/ StartSetRunning(c)
                          \/ ShutdownNotify(c) \/ ShutdownClearRunning(c)
    \/ TaskBreak

LifecycleSpec == LifecycleInit /\ [][LifecycleNext]_vars

\* ------------------------------------------------------------------------
\* Claims about the submission engine
\* ------------------------------------------------------------------------

\* C1: the nonces returned to callers by successive Submit operations are
\* strictly increasing (no nonce is returned twice, none is followed by a
\* smaller or equal one).
C1_NoncesStrictlyIncreasing ==
    \A i, j \in 1..Len(returned) : i < j => returned[i] < returned[j]

\* C4: after a new-block notification that read application nonce n has been
\* processed, no pending transaction with nonce <= n remains at any position
\* of the queue.
C4_NoStalePending ==
    last_op = "sync" => \A i \in 1..Len(pending) : pending[i].nonce > app_nonce

\* every pending transaction was last sent at least TIMEOUT ago, and neither
\* progress of the application nonce nor a retry pass happened since then
Stalled ==
    /\ pending # <<>>
    /\ app_nonce = base_nonce
    /\ now - cycle_start >= TIMEOUT
    /\ \A i \in 1..Len(pending) : now - pending[i].timestamp >= TIMEOUT

\* C5: whenever at least TIMEOUT has elapsed with the application nonce still
\* equal to base_nonce while transactions are pending, the next new-block
\* notification sends every pending transaction the validator accepts to the
\* mempool exactly once, in every timeout cycle (the mempool failing none of
\* the sends).
C5_RetryEveryCycle ==
    [][ (Stalled /\ last_op' = "sync" /\ ~SendFailed(steps'))
          => /\ {tx.method : tx \in Range(sent')}
                  = {tx.method : tx \in Range(pending)} \ rejected'
             /\ Len(sent') = Cardinality({tx.method : tx \in Range(sent')}) ]_vars

\* ------------------------------------------------------------------------
\* Claims about the consensus pipeline
\* ------------------------------------------------------------------------
OutputSubDags == [i \in 1..Len(outputs) |-> outputs[i].sub_dag]

\* C2: the sequence of ConsensusOutputs handed to the execution engine is a
\* prefix of the sequence of committed sub-dags: one output per sub-dag at
\* most, in commit order, output k never before outputs 1..k-1.
C2_OutputsInCommitOrder == IsPrefix(OutputSubDags, committed)

\* two sub-dags wait in commit order while the producer runs: the batches of
\* the second are all stored, a batch of the first is not, and nothing was
\* handed over
C2_Witness ==
    /\ prod_pc = "select" /\ outputs = <<>>
    /\ Len(waiting) = 2
    /\ ~FetchResolved(waiting[1], pool)
    /\ FetchResolved(waiting[2], pool)
    /\ DigestsOf(waiting[2]) # {}

Emitted(k) == \E i \in 1..Len(outputs) : outputs[i].sub_dag.id = k

BatchesStored(k) == k <= Len(committed) /\ DigestsOf(committed[k]) \subseteq pool

\* C3 (as claimed): once every batch referenced by a committed sub-dag is
\* stored, and no shutdown is signalled, its ConsensusOutput is eventually
\* handed to the execution engine (stated for the sub-dags that reference
\* at least one batch).
C3_OwnBatchesSuffice ==
    \A k \in 1..MaxCerts :
        (BatchesStored(k) /\ DigestsOf(committed[k]) # {})
            ~> (Emitted(k) \/ shutdown_sent)

\* C3 (amended): once every batch referenced by a committed sub-dag and by
\* every sub-dag committed before it is stored, and no shutdown is signalled,
\* its ConsensusOutput is eventually handed to the execution engine.
C3_BatchesUpToSuffice ==
    \A k \in 1..MaxCerts :
        (\A j \in 1..k : BatchesStored(j)) ~> (Emitted(k) \/ shutdown_sent)

\* two sub-dags that reference batches were handed over without a shutdown
C3_Witness ==
    /\ ~shutdown_sent
    /\ Len(outputs) >= 2
    /\ \A i \in 1..2 : DigestsOf(outputs[i].sub_dag) # {}
    /\ \A i \in 1..2 : BatchesStored(i)

\* C6: once the shutdown signal is sent, no further ConsensusOutput is handed
\* to the execution engine.
C6_NoOutputAfterSignal ==
    \A i \in 1..Len(outputs) : ~outputs[i].after_shutdown

\* C7: after the shutdown signal is sent, the receiver and the producer each
\* return within one loop iteration (they begin at most one more iteration of
\* work, and they end by returning).
C7_ReturnWithinOneIteration ==
    /\ recv_iters <= 1
    /\ Cardinality({i \in 1..Len(outputs) : outputs[i].after_shutdown}) <= 1
    /\ recv_pc # "panicked"

\* ------------------------------------------------------------------------
\* Claims about the verified block stream
\* ------------------------------------------------------------------------
\* the content lengths k*BLOCK_SIZE-1, k*BLOCK_SIZE, k*BLOCK_SIZE+1 (k >= 1)
BoundaryLen(len) ==
    \E k \in 1..(MaxK + 1), d \in {-1, 0, 1} : len = k * BLOCK_SIZE + d

\* the stream arrived as encoded and every read passed a whole block of room
FaithfulDecoding ==
    /\ phase = "decode" /\ corrupted = 0 /\ ~truncated /\ ~small_buf
    /\ BoundaryLen(Len(content))

EndOfData == ~IsNone(last_read) /\ Unwrap(last_read) = [kind |-> "Ok", n |-> 0]

\* C8: for a content of k*BLOCK_SIZE-1, k*BLOCK_SIZE or k*BLOCK_SIZE+1 bytes,
\* however the content was split across Encoder::write calls, decoding the
\* encoder's output yields exactly the original bytes: no read fails, what
\* has been delivered is always a prefix of the content, and when the decoder
\* reports the end of the data the whole content has been delivered.
C8_RoundTrip ==
    FaithfulDecoding =>
        /\ IsPrefix(delivered, content)
        /\ ~IsNone(last_read) => Unwrap(last_read).kind = "Ok"
        /\ EndOfData => delivered = content

\* a three-block content written in several pieces, decoded to the end
C8_Witness ==
    /\ FaithfulDecoding /\ EndOfData
    /\ Len(content) = 2 * BLOCK_SIZE + 1 /\ writes > 1
    /\ delivered = content

\* C9: once a read has returned InvalidData for a corrupted proof or block,
\* no byte of that block or of any later part of the stream is delivered to
\* the caller, by that read or by any later read.
C9_NothingAfterInvalidData ==
    ~IsNone(failed_at) => Len(delivered) = Unwrap(failed_at)

\* ------------------------------------------------------------------------
\* Claims about the handshake frame codec
\* ------------------------------------------------------------------------
RECURSIVE FramesOf(_)
\* the frames the read_frame calls returned, in order
FramesOf(got) ==
    IF got = <<>> THEN <<>>
    ELSE (IF Head(got).kind = "Frame" THEN Head(got).frame ELSE <<>>)
         \o FramesOf(Tail(got))

\* read_frame(None) never failed
NoErrorUnfiltered ==
    \A i \in 1..Len(hs_got) :
        IsNone(hs_got[i].filter) => hs_got[i].kind \in {"Frame", "None"}

\* a HandshakeRequest that asks to resume lane 255
ResumesLaneFF(f) == f.tag = "HandshakeRequest" /\ f.resume_lane = Some(255)

\* C10 (as stated): every frame written with write_frame, whatever its
\* variant and the values of its fields (every resume_lane included), comes
\* back from read_frame(None) as an equal frame.
C10_RoundTripEveryFrame ==
    ~hs_raw =>
        /\ NoErrorUnfiltered
        /\ Len(FramesOf(hs_got)) <= Len(hs_sent)
        /\ \A i \in 1..Len(FramesOf(hs_got)) : FramesOf(hs_got)[i] = hs_sent[i]

\* C10 (amended): every frame written with write_frame comes back from
\* read_frame as an equal frame, except a HandshakeRequest whose resume_lane
\* is Some(0xFF), which comes back with resume_lane None.
C10_RoundTripExceptLaneFF ==
    ~hs_raw =>
        /\ NoErrorUnfiltered
        /\ Len(FramesOf(hs_got)) <= Len(hs_sent)
        /\ \A i \in 1..Len(FramesOf(hs_got)) :
              IF ResumesLaneFF(hs_sent[i])
              THEN FramesOf(hs_got)[i] = [hs_sent[i] EXCEPT !.resume_lane = None]
              ELSE FramesOf(hs_got)[i] = hs_sent[i]

\* a request that resumes lane 23 was written, read without a filter and
\* returned as written
C10_Witness ==
    /\ ~hs_raw /\ hs_sent # <<>> /\ FramesOf(hs_got) = hs_sent
    /\ hs_sent[1].tag = "HandshakeRequest" /\ hs_sent[1].resume_lane = Some(23)
    /\ \A i \in 1..Len(hs_got) : IsNone(hs_got[i].filter)

\* the call found a first byte that is a tag and that the filter forbids
FilterForbids(g) ==
    /\ ~IsNone(g.filter) /\ ~IsNone(g.first)
    /\ ~IsNone(FrameTagFromU8(Unwrap(g.first)))
    /\ BitAnd(Unwrap(g.first), Unwrap(g.filter)) # Unwrap(g.first)

\* C11: for every tag byte t and filter f with t & f # t, read_frame(Some(f))
\* on a stream that starts with t returns InvalidData and writes the one
\* termination byte 0x80 (CodecViolation) to its writer, however little of
\* the frame has arrived.
C11_FilterRejectsAtFirstByte ==
    \A i \in 1..Len(hs_got) :
        FilterForbids(hs_got[i]) =>
            /\ hs_got[i].kind = "InvalidData"
            /\ hs_got[i].signal = <<TERMINATION_FLAG>>
            /\ hs_got[i].consumed = 0

\* a read that asked for responses only was refused on the single byte of a
\* request's tag, the writer still open and the other 32 bytes not sent
C11_Witness ==
    /\ ~hs_closed /\ hs_sent = <<>> /\ Len(hs_got) = 1
    /\ FilterForbids(hs_got[1])
    /\ hs_got[1].first = Some(HANDSHAKE_REQ_TAG) /\ hs_got[1].avail = 1
    /\ hs_got[1].kind = "InvalidData" /\ hs_out = <<TERMINATION_FLAG>>

\* the call rejected its input: an unknown or filtered tag (InvalidData), a
\* foreign network name or a bad reason byte (HandshakeCodecError, kind Other)
RejectedInput(g) == g.kind \in {"InvalidData", "Other"}

\* C12: whenever read_frame rejects its input for a codec violation (a first
\* byte that is no known tag, a HandshakeRequest with a wrong network name, a
\* bad termination reason byte), it has written a CodecViolation termination
\* signal to its writer before it returns the error, with or without a
\* filter.
C12_SignalOnEveryCodecViolation ==
    \A i \in 1..Len(hs_got) :
        RejectedInput(hs_got[i]) => hs_got[i].signal = <<TERMINATION_FLAG>>

\* the bytes the call found are the start of a frame the filter lets through,
\* and fewer than the frame's fixed size
PartOfFrame(g) ==
    /\ g.avail > 0
    /\ ~IsNone(FrameTagFromU8(Unwrap(g.first)))
    /\ IsNone(g.filter) \/ BitAnd(Unwrap(g.first), Unwrap(g.filter)) = Unwrap(g.first)
    /\ g.avail < size_hint(Unwrap(FrameTagFromU8(Unwrap(g.first))))

\* C18: read_frame returns Ok(None) only when its reader is at end of file
\* and its buffer is empty; at end of file with part of a frame buffered it
\* returns ConnectionReset; and a frame it returns was taken from exactly as
\* many buffered bytes as the fixed size of its tag.
C18_NoneOnlyAtCleanEof ==
    \A i \in 1..Len(hs_got) :
        LET g == hs_got[i]
        IN /\ g.kind = "None" => g.eof /\ g.avail = 0 /\ g.left = 0
           /\ (g.eof /\ PartOfFrame(g)) => g.kind = "ConnectionReset"
           /\ g.kind = "ConnectionReset" => g.eof /\ g.left > 0
           /\ g.kind = "Frame" =>
                 /\ g.consumed = size_hint(Unwrap(g.frame).tag)
                 /\ g.consumed <= g.avail

\* the peer sent a termination byte and the first two bytes of a service
\* request, then dropped its end: the first read returned the termination
\* signal from one byte, the second found two bytes of a five-byte frame and
\* the end of the stream
C18_Witness ==
    /\ hs_closed /\ Len(hs_got) = 2
    /\ hs_got[1].kind = "Frame" /\ hs_got[1].consumed = 1 /\ hs_got[1].avail = 3
    /\ hs_got[2].kind = "ConnectionReset" /\ PartOfFrame(hs_got[2])
    /\ hs_got[2].first = Some(SERVICE_REQ_TAG)

\* ------------------------------------------------------------------------
\* More claims about the verified block stream
\* ------------------------------------------------------------------------
\* the decoder's last read reported the end of the data, on a stream none of
\* whose bytes was altered and with a whole block of room in every read
CleanEndOfData ==
    phase = "decode" /\ corrupted = 0 /\ ~small_buf /\ EndOfData

\* C14: the decoder reports the end of the data (Ok(0)) only after all the
\* blocks were verified and delivered, or when the stream was completely
\* empty; a reader that reaches end of file after at least one byte of the
\* stream and before the last block arrived in full yields ConnectionReset
\* and not Ok(0).
C14_EndOfDataOnlyWhenComplete ==
    CleanEndOfData => \/ wire = <<>>
                      \/ delivered = content /\ dec.block = NumBlocksOf(Len(content))

RECURSIVE EncodedBlocks(_)
\* the first k blocks of the content as they stand in the stream: for every
\* block its proof, which may be empty, and then its bytes
EncodedBlocks(k) ==
    IF k = 0 THEN <<>>
    ELSE EncodedBlocks(k - 1) \o ProofBuf(k - 1, NumBlocksOf(Len(content)))
         \o BlockOf(content, k - 1)

\* the content bytes that make whole blocks: all of them once the content has
\* been written to its end, else the whole BLOCK_SIZE-byte blocks
CompleteBlocks ==
    IF written = Len(content) THEN NumBlocksOf(Len(content))
    ELSE written \div BLOCK_SIZE

\* C15: however the content is split into write calls, after every write the
\* encoder's output is the 8-byte big-endian length followed, for the blocks
\* 0..k-1 in order, by the block's proof (nothing when it is empty) and the
\* block's bytes, where k counts the blocks the caller has completed so far:
\* no block is written short of its size, a completed block is written before
\* write returns, and the bytes of an incomplete block wait in the buffer.
C15_OutputIsHeaderThenBlocks ==
    phase \in {"encode", "decode"} =>
        /\ enc.block = CompleteBlocks
        /\ enc.writer = to_be_bytes(Len(content), 8) \o EncodedBlocks(enc.block)
        /\ enc.buffer = SubSeq(content, enc.block * BLOCK_SIZE + 1, written)

\* a content of two whole blocks and one byte, written in more than two
\* pieces, to its end
C15_Witness ==
    /\ phase = "encode" /\ written = Len(content) /\ writes > 2
    /\ Len(content) = 2 * BLOCK_SIZE + 1
    /\ enc.block = 3 /\ enc.buffer = <<>>

C13_SubmitRespondsThenSendsOnce ==
    [][ returned' # returned =>
          LET n == next_nonce
              tx == PendingTransaction(Len(returned) + 1, n, now)
          IN /\ returned' = Append(returned, n)
             /\ \/ /\ steps' = <<Step("respond", n), Step("send", n), Step("push", n)>>
                   /\ sent' = <<tx>>
                   /\ mempool' = mempool \cup {n}
                   /\ pending' = Append(pending, tx)
                \/ /\ steps' = <<Step("respond", n), Step("send", n), Step("fail", n)>>
                   /\ sent' = <<>>
                   /\ pending' = pending ]_vars

\* the second Submit of a signer that started at nonce 0 was answered with
\* nonce 2, sent and queued behind the first
C13_Witness ==
    /\ last_op = "submit" /\ returned = <<1, 2>>
    /\ steps = <<Step("respond", 2), Step("send", 2), Step("push", 2)>>
    /\ Len(pending) = 2 /\ pending[2].nonce = 2 /\ sent = <<pending[2]>>
    /\ 2 \in mempool

C16_PoolIsMonotonic ==
    /\ [][\A d \in DOMAIN bp_batches :
             d \in DOMAIN bp_batches' /\ bp_batches'[d] = bp_batches[d]]_vars
    /\ [](\A i \in 1..Len(bp_gets) :
             bp_gets[i].state = "ready" =>
                 /\ bp_gets[i].digest \in DOMAIN bp_batches
                 /\ bp_gets[i].batch = Some(bp_batches[bp_gets[i].digest]))

\* the first delivery of digest 1 was stored, its second delivery was stored
\* after it, and a get made after both resolved to the first
C16_Witness ==
    /\ bp_stores = 2 /\ bp_op = "get"
    /\ DOMAIN bp_batches = {1} /\ bp_batches[1] = Batch(1, 1)
    /\ Len(bp_gets) = 1 /\ bp_gets[1].state = "ready"
    /\ bp_gets[1].batch = Some(Batch(1, 1))

\* the i-th get future exists and is in one of the states
GetIs(i, states) ==
    IF i <= Len(bp_gets) THEN bp_gets[i].state \in states ELSE FALSE

\* C17: a get made before its batch is stored stays pending until the store;
\* the store wakes every waiter of the digest, and each of them that is not
\* cancelled resolves to the batch; cancelling one waiter changes neither the
\* pool nor any other waiter.
C17_WaitersWakeOnStore ==
    /\ [](\A i \in 1..Len(bp_gets) :
             /\ bp_gets[i].state = "pending" <=>
                   (bp_gets[i].digest \notin DOMAIN bp_batches
                    /\ bp_gets[i].state \notin {"cancelled"})
             /\ bp_gets[i].state \in {"woken", "ready"} =>
                   bp_gets[i].digest \in DOMAIN bp_batches)
    /\ \A i \in 1..MaxGets :
          GetIs(i, {"woken"}) ~> GetIs(i, {"ready", "cancelled"})
    /\ [][bp_op' = "cancel" /\ bp_gets' # bp_gets =>
             /\ bp_batches' = bp_batches
             /\ Cardinality({i \in 1..Len(bp_gets) : bp_gets'[i] # bp_gets[i]}) = 1]_vars

\* two gets waited for digest 2; the batch was stored, one waiter was
\* cancelled and the other resolved to the batch
C17_Witness ==
    /\ Len(bp_gets) = 2 /\ bp_stores = 1 /\ 2 \in DOMAIN bp_batches
    /\ bp_gets[1].digest = 2 /\ bp_gets[2].digest = 2
    /\ bp_gets[1].state = "cancelled"
    /\ bp_gets[2].state = "ready" /\ bp_gets[2].batch = Some(bp_batches[2])
    /\ bp_op = "wake"

\* ------------------------------------------------------------------------
\* Claims about the bytes write_frame emits
\* ------------------------------------------------------------------------
\* the 4 bytes of w from offset off (counted from 0) read as a big-endian u32
BigEndian4(w, off) ==
    w[off + 1] * 16777216 + w[off + 2] * 65536 + w[off + 3] * 256 + w[off + 4]

\* the 8 bytes of w from offset off hold n big-endian (n below 2^32)
HoldsBigEndian8(w, off, n) ==
    /\ \A i \in 1..4 : w[off + i] = 0
    /\ BigEndian4(w, off + 4) = n

\* the bytes w are the wire layout of frame f
WireLayout(f, w) ==
    /\ Len(w) = size_hint(f.tag)
    /\ CASE f.tag = "TerminationSignal" -> w[1] = ReasonAsU8(f.reason) /\ w[1] >= 128
         [] f.tag = "HandshakeRequest" ->
               /\ w[1] = 1
               /\ SubSeq(w, 2, 10) = <<76, 73, 71, 72, 84, 78, 73, 78, 71>>
               /\ w[11] = f.version
               /\ w[12] = f.supported_compression_set
               /\ w[13] = (IF f.resume_lane = None THEN 255 ELSE f.resume_lane[1])
               /\ SubSeq(w, 14, 33) = f.pubkey
         [] f.tag = "HandshakeResponse" ->
               /\ w[1] = 2 /\ w[2] = f.lane
               /\ SubSeq(w, 3, 98) = f.pubkey
               /\ HoldsBigEndian8(w, 98, f.nonce)
         [] f.tag = "HandshakeResponseUnlock" ->
               /\ w[1] = 4 /\ w[2] = f.lane
               /\ SubSeq(w, 3, 98) = f.pubkey
               /\ HoldsBigEndian8(w, 98, f.nonce)
               /\ BigEndian4(w, 106) = f.last_service_id
               /\ HoldsBigEndian8(w, 110, f.last_bytes)
               /\ SubSeq(w, 119, 214) = f.last_signature
         [] f.tag = "DeliveryAcknowledgement" -> w[1] = 8
         [] f.tag = "ServiceRequest" ->
               w[1] = 16 /\ BigEndian4(w, 1) = f.service_id

C22_StoredBlockIsImmutable ==
    \A i, j \in 1..Len(bs_log) :
        (i < j /\ bs_log[i].op = "insert" /\ bs_log[j].op = "fetch"
           /\ bs_log[j].key = bs_log[i].key)
        => bs_log[j].block = bs_log[i].block

\* ------------------------------------------------------------------------
\* Claims about the classification of a tag byte
\* ------------------------------------------------------------------------
\* bit 7 of a byte, by division
Bit7(b) == (b \div 128) % 2 = 1

\* C23: for every byte b, is_termination_signal(b) is true iff bit 7 of b is
\* set; FrameTag::from_u8(b) is TerminationSignal iff bit 7 is set, a content
\* tag iff b is one of 0x01, 0x02, 0x04, 0x08, 0x10, None otherwise; no
\* content tag is classified as a termination signal or the reverse.
C23_TagClassification ==
    cl_out # None =>
        LET out == cl_out[1]
            ctags == {"HandshakeRequest", "HandshakeResponse",
                        "HandshakeResponseUnlock", "DeliveryAcknowledgement",
                        "ServiceRequest"}
        IN /\ out.termination <=> Bit7(cl_byte)
           /\ out.tag = <<"TerminationSignal">> <=> Bit7(cl_byte)
           /\ (out.tag # <<>> /\ out.tag[1] \in ctags) <=> cl_byte \in {1, 2, 4, 8, 16}
           /\ out.tag = <<>> <=> (~Bit7(cl_byte) /\ cl_byte \notin {1, 2, 4, 8, 16})
           /\ (out.tag # <<>> /\ out.tag[1] \in ctags) => ~out.termination

\* the byte 0x80, the lowest with bit 7 set, was classified as a termination
\* signal
C23_Witness ==
    /\ cl_byte = 128 /\ cl_out # None
    /\ cl_out[1].termination /\ cl_out[1].tag = <<"TerminationSignal">>

\* ------------------------------------------------------------------------
\* Claims about the compression set
\* ------------------------------------------------------------------------
\* C24: for every set and algorithm a: after insert(a), contains(a) is true;
\* after remove(a), contains(a) is false unless a is Uncompressed, which
\* contains reports as true for every set; insert and remove of a leave
\* contains(b) unchanged for every other algorithm b.
C24_InsertRemoveContains ==
    \A i \in 1..Len(cs_log) :
        LET o == cs_log[i]
        IN /\ contains(o.before, "Uncompressed") /\ contains(o.after, "Uncompressed")
           /\ o.op = "insert" => contains(o.after, o.arg)
           /\ (o.op = "remove" /\ o.arg # "Uncompressed") => ~contains(o.after, o.arg)
           /\ o.op \in {"insert", "remove"} =>
                 \A b \in CompressionAlgorithm \ {o.arg} :
                     contains(o.after, b) <=> contains(o.before, b)

\* Brotli was removed from a set that held Brotli and Lz4: Lz4 stays, Brotli
\* is gone
C24_Witness ==
    /\ cs_log # <<>>
    /\ cs_log[Len(cs_log)].op = "remove" /\ cs_log[Len(cs_log)].arg = "Brotli"
    /\ cs_log[Len(cs_log)].before = 12 /\ cs_set = 8
    /\ contains(cs_set, "Lz4") /\ ~contains(cs_set, "Brotli")

\* the algorithms the handshake codec names a bit for
CodecNamed == {"Snappy", "Gzip", "Lz4"}

\* the bit the handshake codec's constant names for an algorithm
CodecBit(algo) ==
    CASE algo = "Snappy" -> SNAPPY
      [] algo = "Gzip" -> GZIP
      [] algo = "Lz4" -> LZ4

\* the algorithms a byte on the wire holds, read through the codec constants
CodecReads(byte) == {a \in CodecNamed : BitAnd(byte, CodecBit(a)) # 0}

\* C25: the bit CompressionAlgoSet puts on the wire for Snappy, Gzip and Lz4
\* is the bit the handshake codec's constant names for it: a set built from
\* new() by insert(a) is read through the codec constants as containing a and
\* nothing else.
C25_WireBitsMatchCodec ==
    (/\ Len(cs_log) = 1 /\ cs_log[1].op = "insert"
     /\ cs_log[1].before = CompressionAlgoSetNew /\ cs_log[1].arg \in CodecNamed)
    => /\ AlgoAsU8(cs_log[1].arg) = CodecBit(cs_log[1].arg)
       /\ CodecReads(CompressionAlgoSetIntoU8(cs_set)) = {cs_log[1].arg}

\* ------------------------------------------------------------------------
\* Claims about the fetch jobs of the output producer
\* ------------------------------------------------------------------------
\* the ConsensusOutput o holds, certificate by certificate, a batch for
\* every digest of the payload
Complete(o) ==
    /\ Len(o.batches) = Len(o.sub_dag.certificates)
    /\ \A j \in 1..Len(o.batches) : o.batches[j] = o.sub_dag.certificates[j]

\* C26: every ConsensusOutput handed to execution is complete: one entry per
\* certificate of the sub-dag, in sub-dag order, each with one batch for
\* every digest of that certificate's payload, whatever the order in which
\* the batches arrived; no output is produced while a referenced batch is
\* missing from the pool.
C26_OutputsAreComplete ==
    \A i \in 1..Len(outputs) :
        /\ Complete(outputs[i])
        /\ DigestsOf(outputs[i].sub_dag) \subseteq pool

\* an output of two certificates was handed over, the first with two
\* batches, the second with one
C26_Witness ==
    /\ outputs # <<>>
    /\ Len(outputs[1].sub_dag.certificates) = 2
    /\ outputs[1].batches[1] = {1, 2} /\ outputs[1].batches[2] = {2}

\* the fetch job of sub-dag k is in the queue
InWaiting(k) == \E i \in 1..Len(waiting) : waiting[i].id = k

\* the fetch job of sub-dag k has called pool.get for every digest of k
Requested(k) ==
    \E i \in 1..Len(waiting) :
        waiting[i].id = k /\ fetch_gets[i] = Some(DigestsOf(waiting[i]))

\* C27: fetch jobs of different sub-dags run concurrently: once the producer
\* has dequeued a sub-dag, its batch requests are issued to the pool whether
\* or not the jobs of earlier sub-dags ever resolve (unless the producer is
\* shut down first), and the digests of one sub-dag are requested together,
\* never a part of them.
C27_FetchJobsRunConcurrently ==
    /\ [](\A i \in 1..Len(waiting) :
             fetch_gets[i] \in {None, Some(DigestsOf(waiting[i]))})
    /\ \A k \in 1..MaxCerts :
          InWaiting(k) ~> (Requested(k) \/ Emitted(k) \/ shutdown_sent)

\* the job of the second sub-dag has requested its two batches while the job
\* of the first still waits for a batch
C27_Witness ==
    /\ ~shutdown_sent /\ Len(waiting) = 2
    /\ ~FetchResolved(waiting[1], pool)
    /\ fetch_gets[1] = Some(DigestsOf(waiting[1]))
    /\ fetch_gets[2] = Some({1, 2})

\* ------------------------------------------------------------------------
\* Claims about the message receiver
\* ------------------------------------------------------------------------
RECURSIVE CertificatesOf(_)
\* the certificates of a sequence of sub-dags, in order
CertificatesOf(sds) ==
    IF sds = <<>> THEN <<>> ELSE Head(sds).certificates \o CertificatesOf(Tail(sds))

\* the certificates that entered the new-certificates channel, in order
Forwarded == CertificatesOf(committed) \o dag \o new_certificates

VerifiedCertificate(m) == m.kind = "Certificate" /\ m.valid

\* the certificates received that verify, in the order of reception
VerifiedReceived ==
    LET v == SelectSeq(received.msgs, VerifiedCertificate)
    IN [i \in 1..Len(v) |-> v[i].payload]

\* the digests of the batches received
BatchesReceived ==
    UNION {m.payload : m \in {x \in Range(received.msgs) : x.kind = "Batch"}}

\* the message the step has just taken is an invalid certificate or a
\* message that is neither a batch nor a certificate
Dropped(log) ==
    LET m == log.msgs[Len(log.msgs)]
    IN m.kind = "Other" \/ (m.kind = "Certificate" /\ ~m.valid)

\* C28: the receiver forwards a certificate to the ordering engine only if it
\* verifies, forwards the valid certificates in the order of reception (the
\* one being sent is the next; a receiver that panicked in send has lost that
\* one), stores every received batch in the pool, and drops an invalid
\* certificate or another message without changing any state and without
\* leaving its loop.
C28_ReceiverForwardsValidInOrder ==
    /\ [](received.on =>
            /\ CASE recv_pc = "sending" -> Forwarded \o recv_cert = VerifiedReceived
                 [] recv_pc = "panicked" ->
                       /\ IsPrefix(Forwarded, VerifiedReceived)
                       /\ Len(VerifiedReceived) = Len(Forwarded) + 1
                 [] OTHER -> Forwarded = VerifiedReceived
            /\ pool = BatchesReceived)
    /\ [][(received.on /\ received'.msgs # received.msgs /\ Dropped(received'))
            => /\ recv_pc' = "select"
               /\ UNCHANGED <<pool, n_certs, recv_pc, recv_cert, new_certificates,
                              engine_pc, dag, committed, rx_sequence, shutdown_sent>>]_vars

\* a valid certificate, an invalid one and a second valid one were received:
\* the two valid ones reached the ordering engine, in that order
C28_Witness ==
    /\ received.on /\ Len(received.msgs) = 3 /\ recv_pc = "select"
    /\ received.msgs[1] = CertificateMsg({1}, TRUE)
    /\ received.msgs[2] = CertificateMsg({1, 2}, FALSE)
    /\ received.msgs[3] = CertificateMsg({2}, TRUE)
    /\ Forwarded = <<{1}, {2}>>

\* ------------------------------------------------------------------------
\* Claims about the new-block notification
\* ------------------------------------------------------------------------
\* the entries of queue q whose nonce is above n, in the order of q
Above(q, n) == SelectSeq(q, LAMBDA tx : tx.nonce > n)

\* C29: a new-block notification that reads an application nonce app above
\* base_nonce sets base_nonce to app, keeps exactly the pending transactions
\* with nonce > app in their previous order, leaves next_nonce unchanged and
\* sends nothing to the mempool; base_timestamp becomes the timestamp of the
\* new head of pending, or unset when pending is empty.
C29_AdvanceKeepsNewerPending ==
    [][(last_op' = "sync" /\ app_nonce > base_nonce)
          => /\ base_nonce' = app_nonce
             /\ pending' = Above(pending, app_nonce)
             /\ next_nonce' = next_nonce
             /\ sent' = <<>> /\ mempool' = mempool
             /\ base_timestamp' = IF pending' = <<>> THEN None
                                  ELSE Some(pending'[1].timestamp)]_vars

\* the three conditions of the retry
RetryConditions ==
    /\ app_nonce = base_nonce
    /\ next_nonce > base_nonce + 1
    /\ base_timestamp # None
    /\ now - base_timestamp[1] >= TIMEOUT

\* C30: a new-block notification resends pending transactions only if the
\* application nonce equals base_nonce, next_nonce > base_nonce + 1 and at
\* least TIMEOUT has elapsed since base_timestamp; when one of them fails,
\* nothing is sent to the mempool, next_nonce is unchanged, no pending entry
\* gets a new timestamp, and base_timestamp and pending change only if the
\* application nonce has moved above base_nonce.
C30_RetryOnlyWhenStalled ==
    [][(last_op' = "sync" /\ ~RetryConditions)
          => /\ sent' = <<>> /\ mempool' = mempool
             /\ next_nonce' = next_nonce
             /\ Range(pending') \subseteq Range(pending)
             /\ app_nonce <= base_nonce
                   => (base_timestamp' = base_timestamp /\ pending' = pending)]_vars

\* a notification found two transactions pending behind an application nonce
\* that has not moved, one tick short of the timeout, and sent nothing
C30_Witness ==
    /\ last_op = "sync" /\ sent = <<>> /\ signer_pc = "loop"
    /\ app_nonce = base_nonce /\ Len(pending) = 2
    /\ next_nonce > base_nonce + 1
    /\ base_timestamp # None /\ now - base_timestamp[1] = TIMEOUT - 1

\* ------------------------------------------------------------------------
\* Claims about the retry pass and the engine's counters
\* ------------------------------------------------------------------------
\* the entries of queue q the validator did not reject, in the order of q
Accepted(q, rej) == SelectSeq(q, LAMBDA tx : tx.method \notin rej)

\* C31: a timeout retry walks pending in queue order; a transaction the
\* validator rejects is not sent and stays in pending with its old timestamp;
\* each other transaction is sent once with its original nonce and signature
\* and gets a fresh timestamp; afterwards next_nonce = base_nonce + 1 + (number
\* of transactions resent) and base_timestamp is the resend time of the first
\* resent transaction, or unset if none was resent (the mempool failing none
\* of the sends).
C31_RetryPass ==
    [][(last_op' = "sync" /\ RetryConditions /\ ~SendFailed(steps'))
          => /\ Len(pending') = Len(pending)
             /\ \A i \in 1..Len(pending) :
                   IF pending[i].method \in rejected'
                   THEN pending'[i] = pending[i]
                   ELSE /\ pending'[i].method = pending[i].method
                        /\ pending'[i].nonce = pending[i].nonce
                        /\ pending'[i].timestamp = now
             /\ sent' = Accepted(pending', rejected')
             /\ [i \in 1..Len(steps') |-> steps'[i].nonce]
                   = [i \in 1..Len(sent') |-> sent'[i].nonce]
             /\ next_nonce' = base_nonce + 1 + Len(sent')
             /\ base_timestamp' = IF sent' = <<>> THEN None
                                  ELSE Some(sent'[1].timestamp)]_vars

\* a retry pass over two pending transactions, entered after a wait, has
\* skipped the one the validator rejected and resent the other
C31_Witness ==
    /\ last_op = "sync" /\ signer_pc = "loop" /\ Len(pending) = 2
    /\ Len(sent) = 1 /\ rejected = {pending[1].method}
    /\ sent[1] = pending[2] /\ pending[2].timestamp = now
    /\ pending[1].timestamp < now
    /\ next_nonce = base_nonce + 2 /\ base_timestamp = Some(now)

\* C32: in every reachable state of the submission engine, base_timestamp is
\* set if and only if pending is non-empty, and when set it is the send (or
\* latest resend) time of the earliest still-pending transaction, the head of
\* the queue.
C32_BaseTimestampTracksHead ==
    signer_pc = "loop"
        => /\ (base_timestamp # None) <=> (pending # <<>>)
           /\ base_timestamp # None => base_timestamp = Some(pending[1].timestamp)

\* C38: in every reachable state of the submission engine next_nonce >
\* base_nonce: the next nonce to assign is never a nonce the application has
\* already finalized, after any sequence of submits, retries (with or without
\* rejected transactions) and application-nonce advances.
C38_NextNonceAboveBase ==
    signer_pc = "loop" => next_nonce > base_nonce

\* ------------------------------------------------------------------------
\* Claims about the receiver's channel to the ordering engine
\* ------------------------------------------------------------------------
\* C40: the message receiver's send of a verified certificate on the
\* new-certificates channel never fails: whenever it sends, the ordering
\* engine's receiving end is still alive, also when a certificate arrives
\* while shutdown is in progress, so the expect on that send is never
\* triggered and the task ends only by returning.
C40_CertificateSendNeverFails ==
    /\ recv_pc # "panicked"
    /\ recv_pc = "sending" => engine_pc = "running"

\* ------------------------------------------------------------------------
\* Claims about the decoder's states
\* ------------------------------------------------------------------------
\* the state changes the decoder is said to make
DecoderArrows ==
    {<<"WaitingForHeader", "WaitingForProof">>, <<"WaitingForProof", "WaitingForBlock">>,
     <<"WaitingForBlock", "WaitingForProof">>, <<"WaitingForBlock", "Finished">>}

\* the states the decoder was in during the read that led from d to e
StatesDuring(d, e) == <<d.state.kind>> \o e.visited

\* blocks verified during a read that went through the states of path
VerifiedDuring(path) ==
    Cardinality({i \in 1..(Len(path) - 1) : path[i] = "WaitingForBlock"})

\* C34: the decoder changes state only along WaitingForHeader ->
\* WaitingForProof -> WaitingForBlock -> (WaitingForProof | Finished);
\* Finished is absorbing; the block index starts at 0, grows by exactly 1 per
\* verified block and never exceeds N, blocks are delivered in index order,
\* and Finished is entered exactly when the block index reaches N.
C34_DecoderStateOrder ==
    /\ [](phase \in {"encode", "decode"} =>
            /\ dec.state.kind = "WaitingForHeader" => dec.block = 0
            /\ dec.block <= NumBlocksOf(Len(content))
            /\ dec.state.kind = "Finished" <=> dec.block = NumBlocksOf(Len(content)))
    /\ [][dec' # dec =>
            LET path == StatesDuring(dec, dec')
            IN /\ \A i \in 1..(Len(path) - 1) : <<path[i], path[i + 1]>> \in DecoderArrows
               /\ dec'.state.kind = path[Len(path)]
               /\ dec'.block = dec.block + VerifiedDuring(path)
               /\ VerifiedDuring(path) <= 1
               /\ IsPrefix(delivered' \o dec'.out_buffer,
                           delivered \o dec.out_buffer
                               \o (IF VerifiedDuring(path) = 1 /\ ~Panicked'
                                   THEN BlockOf(content, dec.block) ELSE <<>>))]_vars

\* the decoder has gone through a three-block stream to Finished, and its
\* last read went from the proof of the last block to Finished
C34_Witness ==
    /\ phase = "decode" /\ dec.state.kind = "Finished" /\ dec.block = 3
    /\ dec.visited = <<"WaitingForBlock", "Finished">>

\* ------------------------------------------------------------------------
\* Claims about the bytes a read hands to its caller
\* ------------------------------------------------------------------------
\* the stream arrived as encoded
IntactStream == phase = "decode" /\ corrupted = 0 /\ ~truncated

\* C39: successive read calls on a VerifiedDecoder deliver every verified
\* byte exactly once and in order for any sequence of caller buffer sizes
\* >= 1: when a verified block is larger than the caller's buffer, the rest
\* is kept and returned by later reads (also for the last block, after the
\* verifier is done), no byte is dropped or duplicated, and no read writes
\* past the caller's buffer.
C39_EveryVerifiedByteOnce ==
    IntactStream =>
        /\ ~Panicked
        /\ IsPrefix(delivered, content)
        /\ EndOfData => delivered = content

\* ------------------------------------------------------------------------
\* Claims about frames that arrive in pieces
\* ------------------------------------------------------------------------
\* the frame read_frame makes of the bytes of frame f when they stand alone
ReadAlone(f) == parse_frame(write_frame(f), None).frame

\* the read_frame calls among the first i that returned a frame
FramesBy(i) == Cardinality({j \in 1..i : hs_got[j].kind = "Frame"})

\* C36: for a byte stream that is a concatenation of valid frames, successive
\* read_frame calls return those frames in order whatever the sizes of the
\* chunks the reader delivers: a frame is returned only once all bytes of its
\* fixed size are buffered, exactly that many bytes are consumed, and bytes
\* of following frames that were read early are kept for the next call.
C36_FramesInOrderAcrossChunks ==
    ~hs_raw =>
        /\ FramesBy(Len(hs_got)) <= Len(hs_sent)
        /\ hs_buffer \o hs_pipe
              = WriteAll(SubSeq(hs_sent, FramesBy(Len(hs_got)) + 1, Len(hs_sent)))
        /\ \A i \in 1..Len(hs_got) :
              IF hs_got[i].kind = "Frame"
              THEN /\ hs_got[i].frame = ReadAlone(hs_sent[FramesBy(i)])
                   /\ hs_got[i].consumed = Len(write_frame(hs_sent[FramesBy(i)]))
                   /\ hs_got[i].avail >= hs_got[i].consumed
              ELSE /\ hs_got[i].consumed = 0
                   /\ IsNone(hs_got[i].filter) => hs_got[i].kind = "None"

\* an acknowledgement and a service request were written back to back; the
\* first read took the acknowledgement and, with it, bytes of the request,
\* which the second read returned
C36_Witness ==
    /\ Len(hs_sent) = 2 /\ Len(hs_got) = 2
    /\ hs_sent[1] = DeliveryAcknowledgement /\ hs_sent[2] = ServiceRequest(16909060)
    /\ hs_got[1].kind = "Frame" /\ hs_got[1].left > 0
    /\ hs_got[1].left < Len(write_frame(hs_sent[2]))
    /\ hs_got[2].frame = Some(hs_sent[2])
    /\ hs_buffer = <<>> /\ hs_pipe = <<>>

\* ------------------------------------------------------------------------
\* Claims about the simulation engine
\* ------------------------------------------------------------------------
\* the main thread is inside run_post_frame or finish, which go through the
\* outgoing messages and the metrics of every worker
MainTouchesWorkers == sim_main \in {"run_post_frame", "finish"}

\* C37: a worker's state (its outgoing messages and metrics) is accessed by
\* one thread at a time: the main thread touches it, in run_post_frame and in
\* finish at the end of run, only when every worker has finished executing
\* the current frame and is waiting for the next one.
C37_WorkerStateOneThreadAtATime ==
    MainTouchesWorkers =>
        \A w \in Workers : sim_pc[w] \in {"wait_for_next_frame", "exited"}

\* the main thread is in finish while a worker is in execute_node
FinishOverlapsExecuteNode ==
    sim_main = "finish" /\ \E w \in Workers : sim_pc[w] = "execute_node"

\* the main thread is never in run_post_frame while a worker runs a frame
PostFrameRunsAlone ==
    sim_main = "run_post_frame" =>
        \A w \in Workers : sim_pc[w] = "wait_for_next_frame"

\* ------------------------------------------------------------------------
\* Claims about the block lengths
\* ------------------------------------------------------------------------
\* ceil(len / BLOCK_SIZE)
CeilBlocks(len) == IF len % BLOCK_SIZE = 0 THEN len \div BLOCK_SIZE
                   ELSE len \div BLOCK_SIZE + 1

RECURSIVE Sum(_)
Sum(lens) == IF lens = <<>> THEN 0 ELSE Head(lens) + Sum(Tail(lens))

\* C35: for every header length L >= 0, the decoder expects
\* N = ceil(L / BLOCK_SIZE) blocks, each of BLOCK_SIZE bytes except the last,
\* which is L mod BLOCK_SIZE bytes (BLOCK_SIZE when the remainder is 0), so
\* the expected block lengths sum to L; this holds at the boundaries L = 0,
\* L = BLOCK_SIZE*k and L = BLOCK_SIZE*k +/- 1, without arithmetic underflow.
C35_BlockLengthsSumToHeader ==
    /\ ~hd_panic
    /\ hd_dec.state.kind # "WaitingForHeader" => hd_dec.num_blocks = CeilBlocks(hd_len)
    /\ Len(hd_lens) <= CeilBlocks(hd_len)
    /\ \A i \in 1..Len(hd_lens) :
          hd_lens[i] = IF i < CeilBlocks(hd_len) \/ hd_len % BLOCK_SIZE = 0
                       THEN BLOCK_SIZE ELSE hd_len % BLOCK_SIZE
    /\ hd_dec.state.kind = "Finished" => Sum(hd_lens) = hd_len

\* the same for the headers that carry a length of at least one byte
BlockLengthsSumToPositiveHeader == hd_len >= 1 => C35_BlockLengthsSumToHeader

\* ------------------------------------------------------------------------
\* Claims about starting and stopping the signer
\* ------------------------------------------------------------------------
\* the fields of the Signer and the task it has spawned
SignerState == <<lc_is_running, lc_rx, lc_permit, lc_task, lc_spawned>>

\* C33: at most one submission task ever exists per Signer, so nonce
\* assignment is serialized: start() on a signer that is already running
\* spawns no second task and changes no state, for any sequence or
\* interleaving of start and shutdown calls.
C33_AtMostOneTask ==
    /\ [](lc_spawned <= 1)
    /\ [][(lc_last'.op = "start" /\ lc_is_running)
             => /\ SignerState' = SignerState
                /\ \A c \in Callers : lc_callers'[c] = lc_callers[c]]_vars

\* start was called on a running signer whose task was alive, after a start
\* and a shutdown call had run side by side; one task was spawned in all
C33_Witness ==
    /\ lc_last = [op |-> "start", saw_running |-> TRUE]
    /\ lc_task = "running" /\ lc_spawned = 1 /\ lc_permit
    /\ lc_calls = 3

====
